---------------------------- MODULE Spec2Model ----------------------------
(****************************************************************************)
(* Timestamp alignment of langbot (src/adjust_timestamps.py).               *)
(*                                                                          *)
(* Times are integers counting milliseconds (2.0 s = 2000), each standing   *)
(* for the float the source holds: the float nearest to that decimal.  The  *)
(* source computes on binary floats (IEEE 754 binary64), and so does the    *)
(* model wherever a sum or a comparison can come out otherwise than in      *)
(* exact arithmetic: a float that is not the nearest to any decimal of      *)
(* whole milliseconds is named by the decimal and its distance from it in   *)
(* units in the last place (see Times below).                               *)
(* A string is a sequence of characters, a character a one-letter string    *)
(* (or a name such as "a_grave" for a letter outside ASCII).                *)
(****************************************************************************)
EXTENDS Integers, Sequences, FiniteSets, TLC

VARIABLES
    pc,                    \* position of the run
    phrases,               \* the phrase list being processed (adjusted_data["dialogue"])
    prev,                  \* the phrase list as it was before the last call (history)
    calls,                 \* number of validate_and_fix_timestamps calls made
    auto_word_timestamps,  \* the raw ASR token stream
    words,                 \* the target words of the matcher call
    position,              \* the position hint / expected_time of the matcher call
    start_timestamp,       \* start token found (NoToken for None)
    end_timestamp,         \* end token found (NoToken for None)
    files,                 \* content of the canonical, _auto, raw word-timestamp,
                           \* _adjusted and _original files of the document
    original,              \* content of the canonical file when the run began; for
                           \* runs on several documents, the directory when they
                           \* began (history)
    index,                 \* index of the phrase being aligned
    simple,                \* --simple
    replace_original,      \* not --no-replace
    trail,                 \* the matcher states tried for the current phrase, each
                           \* with the tokens held when it ended (history)
    args,                  \* the parsed command line of main()
    directory,             \* the files of every document under config.AUDIO_PATH
    pending,               \* what a loop or a process has still to do: the paths
                           \* of the batch loop of main(), the steps of the
                           \* process that runs beside the alignment calls
    journal,               \* what main() did with each document it came to (history)
    runs,                  \* the alignment calls in progress side by side, one per
                           \* document: where each is and what it holds in memory
    dialogue_data,         \* the dialogue the proportional estimator works on
    total_duration,        \* the duration of its audio file
    current_time,          \* the estimator's clock
    elevenlabs_quota_exceeded,  \* the module flag of generate_audio
    tts_calls              \* what each call of generate_elevenlabs_audio did (history)

vars == <<pc, phrases, prev, calls, auto_word_timestamps, words, position,
          start_timestamp, end_timestamp, files, original, index, simple,
          replace_original, trail, args, directory, pending, journal,
          runs, dialogue_data, total_duration, current_time,
          elevenlabs_quota_exceeded, tts_calls>>

-----------------------------------------------------------------------------
(* Bounds of the model *)

MaxPhrases == 3
MaxTick == 2

(* Program constants, in milliseconds *)

MinSpan == 500

-----------------------------------------------------------------------------
(* Generic helpers *)

Min(a, b) == IF a < b THEN a ELSE b

Abs(x) == IF x < 0 THEN -x ELSE x

SeqsUpTo(S, n) == UNION {[1..k -> S] : k \in 0..n}

-----------------------------------------------------------------------------
(* The floats of the code. json.load makes of a decimal with a whole number  *)
(* of milliseconds the float nearest to it (round(x, 2) gives such a float   *)
(* too). A float is held here by its exact value, as 81 binary digits:       *)
(* position i has the weight 2^(18 - i), from 2^17 down to 2^-63. An         *)
(* operation gives the exact result rounded to 53 significant digits, a tie  *)
(* to the even neighbour (IEEE 754 binary64).                                *)

FloatPositions == 1..81

\* The digits as a tuple
Digits(f) == SubSeq(f, 1, 81)

\* The i-th digit of the whole number n of seconds
IntBit(n, i) == (n \div 2^(18 - i)) % 2

\* 2^e modulo 1000, for e below 70: 2^10 is 24 modulo 1000
Pow2Mod(e) == (((24 ^ (e \div 10)) % 1000) * 2 ^ (e % 10)) % 1000

\* The n-th digit after the point of r/1000
FracBit(r, n) == IF 2 * ((r * Pow2Mod(n - 1)) % 1000) >= 1000 THEN 1 ELSE 0

\* What is left of r/1000 after its first n digits, in units of 2^-n / 1000
FracRemainder(r, n) == (r * Pow2Mod(n)) % 1000

\* The position of the first digit 1, 0 when there is none
LeadingOne(bits) ==
    IF \A i \in FloatPositions : bits[i] = 0 THEN 0
    ELSE CHOOSE i \in FloatPositions :
            bits[i] = 1 /\ \A j \in 1..(i - 1) : bits[j] = 0

\* a + b, digit by digit: a carry enters position i when some later position
\* makes one (both digits 1) and every position between passes it on
FloatSum(a, b) ==
    Digits([i \in FloatPositions |->
        LET carry == \E j \in (i + 1)..81 :
                        /\ a[j] = 1 /\ b[j] = 1
                        /\ \A k \in (i + 1)..(j - 1) : a[k] + b[k] = 1
        IN (a[i] + b[i] + (IF carry THEN 1 ELSE 0)) % 2])

\* a - b for a not less than b: position i lends when some later position
\* borrows (0 less 1) and every position between has equal digits
FloatDifference(a, b) ==
    Digits([i \in FloatPositions |->
        LET borrow == \E j \in (i + 1)..81 :
                         /\ a[j] < b[j]
                         /\ \A k \in (i + 1)..(j - 1) : a[k] = b[k]
        IN (a[i] - b[i] - (IF borrow THEN 1 ELSE 0) + 2) % 2])

\* x < y
FloatLess(x, y) ==
    \E i \in FloatPositions : x[i] < y[i] /\ \A j \in 1..(i - 1) : x[j] = y[j]

\* The exact digits rounded to 53 significant ones; `sticky` says that the
\* exact value has more after the last position
Round53(bits, sticky) ==
    LET p == LeadingOne(bits)
        last == p + 52
    IN IF p = 0 \/ last >= 81 THEN bits
       ELSE LET kept == Digits([i \in FloatPositions |-> IF i <= last THEN bits[i] ELSE 0])
                unit == Digits([i \in FloatPositions |-> IF i = last THEN 1 ELSE 0])
                rest == sticky \/ \E i \in (last + 2)..81 : bits[i] = 1
            IN IF bits[last + 1] = 1 /\ (rest \/ bits[last] = 1)
               THEN FloatSum(kept, unit)
               ELSE kept

\* The float of the decimal t/1000 (t milliseconds, t >= 0)
FloatOf(t) ==
    Round53(Digits([i \in FloatPositions |->
                       IF i <= 18 THEN IntBit(t \div 1000, i)
                       ELSE FracBit(t % 1000, i - 18)]),
            FracRemainder(t % 1000, 63) # 0)

\* x + y
FloatAdd(x, y) == Round53(FloatSum(x, y), FALSE)

\* abs(x - y)
FloatAbsDiff(x, y) ==
    Round53(IF FloatLess(x, y) THEN FloatDifference(y, x) ELSE FloatDifference(x, y),
            FALSE)

\* x / 2
FloatHalf(x) == Digits([i \in FloatPositions |-> IF i = 1 THEN 0 ELSE x[i - 1]])

-----------------------------------------------------------------------------
(* Times. A time is the float the code holds, named by an integer: the float *)
(* nearest to the decimal of t whole milliseconds is t itself, and the float *)
(* that lies j units in the last place above it (below it, for j < 0) is     *)
(* t + j * Stride. Phrase and token times read from a file and the results   *)
(* of round(x, 2) are of the first kind; a float sum may be of the second.   *)

Stride == 2 ^ 20

\* The most units in the last place a time may lie from its decimal
MaxUlps == 2 ^ 10 - 1

\* The whole milliseconds nearest to the time
TimeMs(t) == ((t + Stride \div 2) % Stride) - Stride \div 2

\* The units in the last place by which the time lies above the float of its
\* decimal
TimeUlps(t) == (t - TimeMs(t)) \div Stride

\* j units in the last place of a float whose last digit is at position p
\* (the last of the 53 significant digits: LeadingOne + 52)
UlpsAt(j, p) ==
    Digits([i \in FloatPositions |->
               IF i <= p /\ p - i <= 10 THEN (j \div 2 ^ (p - i)) % 2 ELSE 0])

\* The float the time names
TimeFloat(t) ==
    LET decimal == FloatOf(TimeMs(t))
        ulps == UlpsAt(Abs(TimeUlps(t)), LeadingOne(decimal) + 52)
    IN IF TimeUlps(t) = 0 THEN decimal
       ELSE IF TimeUlps(t) > 0 THEN FloatSum(decimal, ulps)
       ELSE FloatDifference(decimal, ulps)

\* The time that names the float f, whose nearest whole milliseconds are ms
TimeOf(ms, f) ==
    LET decimal == FloatOf(ms)
        above == FloatLess(decimal, f)
        distance == IF above THEN FloatDifference(f, decimal)
                    ELSE FloatDifference(decimal, f)
        ulps == CHOOSE j \in 1..MaxUlps :
                    UlpsAt(j, LeadingOne(decimal) + 52) = distance
    IN IF f = decimal THEN ms
       ELSE IF above THEN ms + Stride * ulps
       ELSE ms - Stride * ulps

\* a < b on floats: the floats of different whole milliseconds are ordered as
\* these are, two floats about the same decimal by their last places
TimeLess(a, b) ==
    IF TimeMs(a) # TimeMs(b) THEN TimeMs(a) < TimeMs(b) ELSE TimeUlps(a) < TimeUlps(b)

\* a <= b on floats
TimeLeq(a, b) == ~TimeLess(b, a)

\* The float sum t + 0.5
PlusMinSpan(t) ==
    TimeOf(TimeMs(t) + MinSpan, FloatAdd(TimeFloat(t), FloatOf(MinSpan)))

-----------------------------------------------------------------------------
(* validate_and_fix_timestamps *)

\* The order list.sort(key=...) gives to the positions of `keys`: the sort is
\* stable, a position goes after every position whose key is less than or
\* equal to its own.
RECURSIVE InsertPos(_, _, _)
InsertPos(order, keys, k) ==
    IF order = <<>> THEN <<k>>
    ELSE IF keys[order[Len(order)]] <= keys[k]
         THEN Append(order, k)
         ELSE Append(InsertPos(SubSeq(order, 1, Len(order) - 1), keys, k),
                     order[Len(order)])

RECURSIVE StableOrderUpTo(_, _)
StableOrderUpTo(keys, n) ==
    IF n = 0 THEN <<>> ELSE InsertPos(StableOrderUpTo(keys, n - 1), keys, n)

StableOrder(keys) == StableOrderUpTo(keys, Len(keys))

\* The place of the key of phrase k among the keys of the sort: the number of
\* phrases with a lesser start_time
StartRank(ps, k) ==
    Cardinality({m \in 1..Len(ps) : TimeLess(ps[m].start_time, ps[k].start_time)})

\* Mutant of SortByStart: the list is left in its input order
SortByStart_NoSort(ps) == ps

\* Mutant of SortByStart: an unstable sort, phrases with equal start_time
\* end in the reverse of their input order
SortByStart_TiesReversed(ps) ==
    LET rev == [k \in 1..Len(ps) |-> ps[Len(ps) + 1 - k]]
        order == StableOrder([k \in 1..Len(rev) |-> StartRank(rev, k)])
    IN [k \in 1..Len(rev) |-> rev[order[k]]]

\* phrases.sort(key=lambda x: x["start_time"])
SortByStart(ps) ==
    LET order == StableOrder([k \in 1..Len(ps) |-> StartRank(ps, k)])
    IN [k \in 1..Len(ps) |-> ps[order[k]]]

\* Mutant of FixPhrase: the start of every phrase is moved to the end of the
\* phrase before it, inverted or not
FixPhrase_CloseGaps(ps, k) ==
    LET p == ps[k]
        inverted == TimeLeq(p.end_time, p.start_time)
        s1 == IF k = 1 THEN 0 ELSE ps[k - 1].end_time
        e1 == IF inverted /\ TimeLeq(p.end_time, s1) THEN PlusMinSpan(s1) ELSE p.end_time
        e2 == IF k < Len(ps) /\ TimeLess(ps[k + 1].start_time, e1)
              THEN ps[k + 1].start_time
              ELSE e1
    IN [ps EXCEPT ![k].start_time = s1, ![k].end_time = e2]

\* Mutant of FixPhrase: an overlap is repaired on the later phrase, whose
\* start is raised to the end of the current one
FixPhrase_PushNext(ps, k) ==
    LET p == ps[k]
        inverted == TimeLeq(p.end_time, p.start_time)
        s1 == IF inverted
              THEN (IF k = 1 THEN 0 ELSE ps[k - 1].end_time)
              ELSE p.start_time
        e1 == IF inverted /\ TimeLeq(p.end_time, s1) THEN PlusMinSpan(s1) ELSE p.end_time
        fixed == [ps EXCEPT ![k].start_time = s1, ![k].end_time = e1]
    IN IF k < Len(ps) /\ TimeLess(ps[k + 1].start_time, e1)
       THEN [fixed EXCEPT ![k + 1].start_time = e1]
       ELSE fixed

\* Mutant of FixPhrase: the overlap with the next phrase is not clamped
FixPhrase_NoClamp(ps, k) ==
    LET p == ps[k]
        inverted == TimeLeq(p.end_time, p.start_time)
        s1 == IF inverted
              THEN (IF k = 1 THEN 0 ELSE ps[k - 1].end_time)
              ELSE p.start_time
        e1 == IF inverted /\ TimeLeq(p.end_time, s1) THEN PlusMinSpan(s1) ELSE p.end_time
    IN [ps EXCEPT ![k].start_time = s1, ![k].end_time = e1]

\* One iteration of the repair loop, on the phrase at position k (1-based);
\* the comparisons and the sum of line 252 are those of the floats.
FixPhrase(ps, k) ==
    LET p == ps[k]
        inverted == TimeLeq(p.end_time, p.start_time)
        s1 == IF inverted
              THEN (IF k = 1 THEN 0 ELSE ps[k - 1].end_time)
              ELSE p.start_time
        e1 == IF inverted /\ TimeLeq(p.end_time, s1) THEN PlusMinSpan(s1) ELSE p.end_time
        e2 == IF k < Len(ps) /\ TimeLess(ps[k + 1].start_time, e1)
              THEN ps[k + 1].start_time
              ELSE e1
    IN [ps EXCEPT ![k].start_time = s1, ![k].end_time = e2]

RECURSIVE FixFrom(_, _)
FixFrom(ps, k) == IF k > Len(ps) THEN ps ELSE FixFrom(FixPhrase(ps, k), k + 1)

validate_and_fix_timestamps(ps) == FixFrom(SortByStart(ps), 1)

-----------------------------------------------------------------------------
(* Strings: case, word characters, re.findall(r'\b\w+\b'), re.sub(r'[^\w\s]') *)

Whitespace == {" "}

\* The characters of the model's alphabet that are neither \w nor \s
Punctuation == {",", ".", "!", "?", "'", "-", ";", ":", "<", ">", "/"}

\* \w of a Python 3 str pattern: every character that is neither whitespace
\* nor punctuation in the alphabet of the model (letters, with or without
\* diacritics, digits and the underscore).
IsWordChar(c) == c \notin (Whitespace \cup Punctuation)

\* str.lower() on one character
LowerChar(c) ==
    CASE c = "A" -> "a"   [] c = "B" -> "b"   [] c = "C" -> "c"   [] c = "D" -> "d"
      [] c = "E" -> "e"   [] c = "F" -> "f"   [] c = "G" -> "g"   [] c = "H" -> "h"
      [] c = "I" -> "i"   [] c = "J" -> "j"   [] c = "K" -> "k"   [] c = "L" -> "l"
      [] c = "M" -> "m"   [] c = "N" -> "n"   [] c = "O" -> "o"   [] c = "P" -> "p"
      [] c = "Q" -> "q"   [] c = "R" -> "r"   [] c = "S" -> "s"   [] c = "T" -> "t"
      [] c = "U" -> "u"   [] c = "V" -> "v"   [] c = "W" -> "w"   [] c = "X" -> "x"
      [] c = "Y" -> "y"   [] c = "Z" -> "z"
      [] c = "A_grave" -> "a_grave"   [] c = "E_circ" -> "e_circ"
      [] OTHER -> c

Lower(s) == [k \in 1..Len(s) |-> LowerChar(s[k])]

KeepChar(c) == IsWordChar(c) \/ c \in Whitespace

\* Mutant of CleanWord: only the first character that is neither a word
\* character nor whitespace is deleted (re.sub with count=1)
CleanWord_FirstOnly(word) ==
    LET lowered == Lower(word)
        dropped == {k \in 1..Len(lowered) : ~KeepChar(lowered[k])}
    IN IF dropped = {} THEN lowered
       ELSE LET first == CHOOSE k \in dropped : \A m \in dropped : k <= m
            IN SubSeq(lowered, 1, first - 1) \o SubSeq(lowered, first + 1, Len(lowered))

\* re.sub(r'[^\w\s]', '', word.lower())
CleanWord(word) == SelectSeq(Lower(word), KeepChar)

\* re.findall(r'\b\w+\b', text): the maximal runs of word characters
RECURSIVE ScanWords(_, _, _, _)
ScanWords(text, k, cur, acc) ==
    IF k > Len(text)
    THEN IF cur = <<>> THEN acc ELSE Append(acc, cur)
    ELSE IF IsWordChar(text[k])
         THEN ScanWords(text, k + 1, Append(cur, text[k]), acc)
         ELSE ScanWords(text, k + 1, <<>>,
                        IF cur = <<>> THEN acc ELSE Append(acc, cur))

FindWords(text) == ScanWords(text, 1, <<>>, <<>>)

\* needle in hay (Python's substring test on str)
Contains(hay, needle) ==
    \E k \in 0..(Len(hay) - Len(needle)) :
        SubSeq(hay, k + 1, k + Len(needle)) = needle

\* auto_word == clean_word or clean_word in auto_word or auto_word in clean_word
WordMatches(auto_word, clean_word) ==
    \/ auto_word = clean_word
    \/ Contains(auto_word, clean_word)
    \/ Contains(clean_word, auto_word)

\* timestamp["word"].lower() matches the cleaned target word
TokenMatches(token, clean_word) == WordMatches(Lower(token.word), clean_word)

\* None, for a token
NoToken == [word |-> <<>>, start |-> -1, end |-> -1]

\* None, for the position hint
NoPosition == -1

\* None, for the position a matcher receives
NoHint == [given |-> FALSE, twice |-> 0, float |-> <<>>]

\* The smallest and the largest element of a non-empty set of integers
MinOf(S) == CHOOSE x \in S : \A y \in S : x <= y

MaxOf(S) == CHOOSE x \in S : \A y \in S : x >= y

-----------------------------------------------------------------------------
(* find_word_sequence_in_auto_timestamps *)

\* The position a matcher receives: twice its whole milliseconds (the
\* midpoint of two times need not be a whole number of milliseconds), and
\* its float, held as a function of one argument so that it is worked out
\* only where two distances are equal as numbers.  A time passed as the
\* position:
HintAt(t) ==
    IF t = NoPosition THEN NoHint
    ELSE [given |-> TRUE, twice |-> 2 * TimeMs(t),
          float |-> [once \in {1} |-> TimeFloat(t)]]

\* Line 138: position_midpoint = (phrase["start_time"] + phrase["end_time"]) / 2,
\* a float sum halved
MidpointHint(start_time, end_time) ==
    [given |-> TRUE, twice |-> TimeMs(start_time) + TimeMs(end_time),
     float |-> [once \in {1} |->
                   FloatHalf(FloatAdd(TimeFloat(start_time), TimeFloat(end_time)))]]

\* abs((start + end) / 2 - position), as the code computes it
FloatTimeDiff(start, end, position_float) ==
    FloatAbsDiff(FloatHalf(FloatAdd(FloatOf(start), FloatOf(end))), position_float)

\* The window of len(clean_words) tokens starting at position k matches
WindowMatches(clean_words, toks, k) ==
    \A j \in 1..Len(clean_words) : TokenMatches(toks[k + j - 1], clean_words[j])

\* The start positions of the matching windows, in stream order
MatchingWindows(clean_words, toks) ==
    {k \in 1..(Len(toks) - Len(clean_words) + 1) :
        WindowMatches(clean_words, toks, k)}

\* Twice the distance of the midpoint of the window starting at position k
\* from the position, as a number: the midpoint (start + end) / 2 need not be a
\* whole number of milliseconds
TimeDiff(toks, k, n, pos) ==
    Abs(toks[k].start + toks[k + n - 1].end - pos.twice)

\* time_diff of the window starting at position k is less than that of the
\* window starting at m. The distances are whole multiples of 0.5 ms and the
\* float of each is off by far less, so two that differ as numbers differ the
\* same way as floats; for two that are equal as numbers the floats decide.
CloserWindow(toks, k, m, n, pos) ==
    IF TimeDiff(toks, k, n, pos) # TimeDiff(toks, m, n, pos)
    THEN TimeDiff(toks, k, n, pos) < TimeDiff(toks, m, n, pos)
    ELSE /\ k # m
         /\ FloatLess(FloatTimeDiff(toks[k].start, toks[k + n - 1].end, pos.float[1]),
                      FloatTimeDiff(toks[m].start, toks[m + n - 1].end, pos.float[1]))

\* The place of time_diff of the window starting at k among those of all
\* candidates: the number of candidates with a lesser time_diff
TimeDiffRank(toks, k, n, pos, starts) ==
    Cardinality({m \in starts : CloserWindow(toks, m, k, n, pos)})

\* The increasing enumeration of a finite set of integers
RECURSIVE Ascending(_)
Ascending(S) ==
    IF S = {} THEN <<>> ELSE <<MinOf(S)>> \o Ascending(S \ {MinOf(S)})

\* Mutant of ClosestWindow: among the windows at the least distance the one
\* latest in the stream is taken (a sort that is not stable)
ClosestWindow_LatestTie(toks, n, pos, starts) ==
    MaxOf({k \in starts :
              \A m \in starts : TimeDiff(toks, k, n, pos) <= TimeDiff(toks, m, n, pos)})

\* candidates.sort(key=time_diff); candidates[0]
ClosestWindow(toks, n, pos, starts) ==
    LET cands == Ascending(starts)
        order == StableOrder([c \in 1..Len(cands) |->
                                 TimeDiffRank(toks, cands[c], n, pos, starts)])
    IN cands[order[1]]

\* Mutant of FirstMatching: the forward scan does not stop at its first hit
\* and ends on the last one
FirstMatching_NoBreak(toks, w) ==
    LET hits == {k \in 1..Len(toks) : TokenMatches(toks[k], w)}
    IN IF hits = {} THEN NoToken ELSE toks[MaxOf(hits)]

\* The boundary-word fallback: the first token matching the first word and
\* the last token matching the last word
FirstMatching(toks, w) ==
    LET hits == {k \in 1..Len(toks) : TokenMatches(toks[k], w)}
    IN IF hits = {} THEN NoToken ELSE toks[MinOf(hits)]

\* Mutant of LastMatching: the backward scan stops at the last token without
\* testing it
LastMatching_Unchecked(toks, w) ==
    IF toks = <<>> THEN NoToken ELSE toks[Len(toks)]

LastMatching(toks, w) ==
    LET hits == {k \in 1..Len(toks) : TokenMatches(toks[k], w)}
    IN IF hits = {} THEN NoToken ELSE toks[MaxOf(hits)]

\* Mutant of find_word_sequence_in_auto_timestamps: without a hint the scan
\* does not return at its first matching window and ends on the last one
find_word_sequence_LastWindow(ws, toks, pos) ==
    IF ws = <<>> THEN <<NoToken, NoToken>>
    ELSE
      LET clean_words == [k \in 1..Len(ws) |-> CleanWord(ws[k])]
          n == Len(clean_words)
          starts == MatchingWindows(clean_words, toks)
      IN IF starts # {}
         THEN LET k == IF ~pos.given
                       THEN MaxOf(starts)
                       ELSE ClosestWindow(toks, n, pos, starts)
              IN <<toks[k], toks[k + n - 1]>>
         ELSE <<FirstMatching(toks, clean_words[1]),
                LastMatching(toks, clean_words[n])>>

\* Mutant of find_word_sequence_in_auto_timestamps: the end of a matching
\* window is looked up by the backward scan for the last word
find_word_sequence_EndByScan(ws, toks, pos) ==
    IF ws = <<>> THEN <<NoToken, NoToken>>
    ELSE
      LET clean_words == [k \in 1..Len(ws) |-> CleanWord(ws[k])]
          n == Len(clean_words)
          starts == MatchingWindows(clean_words, toks)
      IN IF starts # {}
         THEN LET k == IF ~pos.given
                       THEN MinOf(starts)
                       ELSE ClosestWindow(toks, n, pos, starts)
              IN <<toks[k], LastMatching(toks, clean_words[n])>>
         ELSE <<FirstMatching(toks, clean_words[1]),
                LastMatching(toks, clean_words[n])>>

find_word_sequence_in_auto_timestamps(ws, toks, pos) ==
    IF ws = <<>> THEN <<NoToken, NoToken>>
    ELSE
      LET clean_words == [k \in 1..Len(ws) |-> CleanWord(ws[k])]
          n == Len(clean_words)
          starts == MatchingWindows(clean_words, toks)
      IN IF starts # {}
         THEN LET k == IF ~pos.given
                       THEN MinOf(starts)
                       ELSE ClosestWindow(toks, n, pos, starts)
              IN <<toks[k], toks[k + n - 1]>>
         ELSE <<FirstMatching(toks, clean_words[1]),
                LastMatching(toks, clean_words[n])>>

-----------------------------------------------------------------------------
(* find_word_by_timing *)

Tolerance == 1700

Margin == 500

common_words ==
    { <<"i">>, <<"y","o","u">>, <<"t","h","e">>, <<"a">>, <<"a","n">>,
      <<"a","n","d">>, <<"i","s">>, <<"a","r","e">>, <<"t","o">>, <<"i","n">>,
      <<"i","t">>, <<"t","h","a","t">>, <<"o","f">>, <<"f","o","r">>,
      <<"o","n">>, <<"w","i","t","h">> }

\* Twice the distance of the midpoint of the token at position k from the
\* expected time, as a number
MidDiff(toks, k, expected_time) ==
    Abs(toks[k].start + toks[k].end - 2 * TimeMs(expected_time))

\* abs(time_midpoint - expected_time) of the token at position k, the float
MidDiffFloat(toks, k, expected_time) ==
    FloatTimeDiff(toks[k].start, toks[k].end, TimeFloat(expected_time))

\* Line 368, abs(time_midpoint - expected_time) <= tolerance: decided by the
\* numbers when they differ, by the floats when the distance is the tolerance
TokenWithinTolerance(toks, k, expected_time, tolerance) ==
    IF MidDiff(toks, k, expected_time) # 2 * tolerance
    THEN MidDiff(toks, k, expected_time) < 2 * tolerance
    ELSE ~FloatLess(FloatOf(tolerance), MidDiffFloat(toks, k, expected_time))

\* The distance of the token at k is less than that of the token at m
CloserToken(toks, k, m, expected_time) ==
    IF MidDiff(toks, k, expected_time) # MidDiff(toks, m, expected_time)
    THEN MidDiff(toks, k, expected_time) < MidDiff(toks, m, expected_time)
    ELSE /\ k # m
         /\ FloatLess(MidDiffFloat(toks, k, expected_time),
                      MidDiffFloat(toks, m, expected_time))

MidDiffRank(toks, k, expected_time, within) ==
    Cardinality({m \in within : CloserToken(toks, m, k, expected_time)})

\* Line 379, matching_timestamps[0][1] + 0.5 < matching_timestamps[1][1], for
\* the tokens at k0 and k1: decided by the numbers when the distances differ
\* by another amount than the margin, by the floats when they differ by it
ClearlyCloser(toks, k0, k1, expected_time) ==
    IF MidDiff(toks, k0, expected_time) + 2 * Margin # MidDiff(toks, k1, expected_time)
    THEN MidDiff(toks, k0, expected_time) + 2 * Margin < MidDiff(toks, k1, expected_time)
    ELSE FloatLess(FloatAdd(MidDiffFloat(toks, k0, expected_time), FloatOf(Margin)),
                   MidDiffFloat(toks, k1, expected_time))

\* The branch taken with two or more matches within the tolerance
PickAmongSeveral(toks, expected_time, within) ==
    LET cands == Ascending(within)
        order == StableOrder([c \in 1..Len(cands) |->
                                 MidDiffRank(toks, cands[c], expected_time, within)])
    IN IF ClearlyCloser(toks, cands[order[1]], cands[order[2]], expected_time)
       THEN toks[cands[order[1]]]
       ELSE NoToken

\* Mutant of find_word_by_timing: without a match within the tolerance the
\* result is None (no search of the whole stream)
find_word_by_timing_NoFallback(word, toks, expected_time, tolerance) ==
    LET clean_word == CleanWord(word)
        textual == {k \in 1..Len(toks) : TokenMatches(toks[k], clean_word)}
        within == {k \in textual :
                      TokenWithinTolerance(toks, k, expected_time, tolerance)}
    IN IF clean_word \in common_words THEN NoToken
       ELSE IF Cardinality(within) = 1 THEN toks[MinOf(within)]
       ELSE IF Cardinality(within) > 1
            THEN PickAmongSeveral(toks, expected_time, within)
       ELSE NoToken

\* Mutant of find_word_by_timing: common words are looked up like any other
\* word
find_word_by_timing_NoStoplist(word, toks, expected_time, tolerance) ==
    LET clean_word == CleanWord(word)
        textual == {k \in 1..Len(toks) : TokenMatches(toks[k], clean_word)}
        within == {k \in textual :
                      TokenWithinTolerance(toks, k, expected_time, tolerance)}
    IN IF Cardinality(within) = 1 THEN toks[MinOf(within)]
       ELSE IF Cardinality(within) > 1
            THEN PickAmongSeveral(toks, expected_time, within)
       ELSE IF Cardinality(textual) = 1 THEN toks[MinOf(textual)]
       ELSE NoToken

find_word_by_timing(word, toks, expected_time, tolerance) ==
    LET clean_word == CleanWord(word)
        textual == {k \in 1..Len(toks) : TokenMatches(toks[k], clean_word)}
        within == {k \in textual :
                      TokenWithinTolerance(toks, k, expected_time, tolerance)}
    IN IF clean_word \in common_words THEN NoToken
       ELSE IF Cardinality(within) = 1 THEN toks[MinOf(within)]
       ELSE IF Cardinality(within) > 1
            THEN PickAmongSeveral(toks, expected_time, within)
       ELSE IF Cardinality(textual) = 1 THEN toks[MinOf(textual)]
       ELSE NoToken

-----------------------------------------------------------------------------
(* Values of the variables a specification does not use *)

\* The content of a file: absent, not valid JSON, cut short by a stop while
\* it was being written (opened for writing, not yet complete), or a complete
\* document
Absent == [state |-> "absent", doc |-> <<>>]

Invalid == [state |-> "invalid", doc |-> <<>>]

Partial == [state |-> "partial", doc |-> <<>>]

File(doc) == [state |-> "complete", doc |-> doc]

NoFiles ==
    [canonical |-> Absent, auto |-> Absent, raw |-> Absent,
     adjusted |-> Absent, original |-> Absent]

\* Mutant of Loaded: a file that is not valid JSON is taken as loaded
Loaded_Unparsed(file) == file.state # "absent"

\* load_json_file(path) is not None: the file exists and json.load succeeds
Loaded(file) == file.state = "complete"

MatcherIdle ==
    /\ auto_word_timestamps = <<>>
    /\ words = <<>>
    /\ position = NoPosition
    /\ start_timestamp = NoToken
    /\ end_timestamp = NoToken

RunIdle ==
    /\ files = NoFiles
    /\ original = <<>>
    /\ index = 0
    /\ simple = FALSE
    /\ replace_original = FALSE
    /\ trail = <<>>

matcherVars == <<auto_word_timestamps, words, position, start_timestamp, end_timestamp>>

runVars == <<files, original, index, simple, replace_original, trail>>

\* None, for --dialogue-id
NoId == <<>>

MainIdle ==
    /\ args = [dialogue_id |-> NoId, simple |-> FALSE, no_replace |-> FALSE]
    /\ directory = <<>>
    /\ pending = <<>>
    /\ journal = <<>>
    /\ runs = <<>>

mainVars == <<args, directory, pending, journal, runs>>

\* None, for a dialogue that was not found
NoDialogue ==
    [found |-> FALSE, english_dialogue |-> <<>>, topic_word |-> <<>>,
     common_words |-> <<>>]

\* The dialogue file that was found, with its "english_dialogue" lines
Dialogue(lines, topic_word, vocabulary) ==
    [found |-> TRUE, english_dialogue |-> lines, topic_word |-> topic_word,
     common_words |-> vocabulary]

\* The float 0.0: a float is the record of its significant digits m and of the
\* exponent e of the last of them, and 0.0 has no digits
F64Zero == [m |-> <<>>, e |-> 0]

EstimatorIdle ==
    /\ dialogue_data = NoDialogue
    /\ total_duration = 0
    /\ current_time = F64Zero

estimatorVars == <<dialogue_data, total_duration, current_time>>

AudioIdle ==
    /\ elevenlabs_quota_exceeded = FALSE
    /\ tts_calls = <<>>

audioVars == <<elevenlabs_quota_exceeded, tts_calls>>

-----------------------------------------------------------------------------
(* The validator on its own: validate_and_fix_timestamps called on a phrase *)
(* list with non-negative times, and called again on its own result.        *)

MaxCalls == 2

\* Times on a grid of 250 ms
TimeGrid == {250 * k : k \in 0..MaxTick}

\* src is the position of the phrase in the input list (history: the code
\* keeps no such field); the validator does not read text.
ValidatorPhrases ==
    [src : {0}, text : {<<>>}, start_time : TimeGrid, end_time : TimeGrid]

Numbered(ps) == [k \in 1..Len(ps) |-> [ps[k] EXCEPT !.src = k]]

\* [{start: 0, end: 5}, {start: 3, end: 8}]
OverlapExample ==
    << [src |-> 1, text |-> <<>>, start_time |-> 0, end_time |-> 5000],
       [src |-> 2, text |-> <<>>, start_time |-> 3000, end_time |-> 8000] >>

\* Phrases at times of the 10 ms grid that are not binary fractions of a
\* second: 0.18 + 0.5 is a float below the float of 0.68
OffGridPhrases ==
    [src : {0}, text : {<<>>}, start_time : {0, 780, 880}, end_time : {180, 680}]

ValidatorInputs ==
    {Numbered(ps) : ps \in SeqsUpTo(ValidatorPhrases, MaxPhrases)}
    \cup {Numbered(ps) : ps \in SeqsUpTo(OffGridPhrases, 3)}
    \cup {OverlapExample}

InitValidator ==
    /\ pc = "validator"
    /\ phrases \in ValidatorInputs
    /\ prev = phrases
    /\ calls = 0
    /\ MatcherIdle
    /\ RunIdle
    /\ MainIdle
    /\ EstimatorIdle
    /\ AudioIdle

Validate ==
    /\ pc = "validator"
    /\ calls < MaxCalls
    /\ prev' = phrases
    /\ phrases' = validate_and_fix_timestamps(phrases)
    /\ calls' = calls + 1
    /\ UNCHANGED <<pc, matcherVars, runVars>>
    /\ UNCHANGED <<mainVars, estimatorVars, audioVars>>

NextValidator == Validate

SpecValidator == InitValidator /\ [][NextValidator]_vars

\* The phrase list as the repair loop receives it in the last call
SortedPrev == SortByStart(prev)

StartBeforeEnd(ps) ==
    \A k \in 1..Len(ps) : TimeLess(ps[k].start_time, ps[k].end_time)

NoOverlap(ps) ==
    \A k \in 1..(Len(ps) - 1) : TimeLeq(ps[k].end_time, ps[k + 1].start_time)

OrderedByStart(ps) ==
    \A k \in 1..(Len(ps) - 1) : TimeLeq(ps[k].start_time, ps[k + 1].start_time)

\* C1: after the validator has run, every phrase has start_time < end_time.
C1_StartBeforeEnd == (pc = "validator" /\ calls >= 1) => StartBeforeEnd(phrases)

\* C2: running the validator on its own output changes nothing:
\* validate(validate(p)) = validate(p).
C2_Idempotent == (pc = "validator" /\ calls = 2) => phrases = prev

\* C9: after the validator has run, no two consecutive phrases overlap.
C9_NoOverlap == (pc = "validator" /\ calls >= 1) => NoOverlap(phrases)

\* C9 witness: the first call lowered the end_time of a phrase to the start of
\* its successor, and the successor, inverted in the input, then had its own
\* start_time repaired in the same pass.
C9_Witness ==
    /\ pc = "validator" /\ calls = 1
    /\ \E k \in 1..(Len(phrases) - 1) :
          /\ TimeLess(SortedPrev[k].start_time, SortedPrev[k].end_time)
          /\ TimeLess(SortedPrev[k + 1].start_time, SortedPrev[k].end_time)
          /\ phrases[k].end_time = SortedPrev[k + 1].start_time
          /\ TimeLeq(SortedPrev[k + 1].end_time, SortedPrev[k + 1].start_time)
          /\ phrases[k + 1].end_time # SortedPrev[k + 1].end_time

\* C10: after the validator has run, the list is ordered by start_time.
C10_OrderedByStart == (pc = "validator" /\ calls >= 1) => OrderedByStart(phrases)

\* C10 witness: the first call reordered the input and rewrote the start_time
\* of the first phrase (to 0) and of a later phrase (to the previous end_time).
C10_Witness ==
    /\ pc = "validator" /\ calls = 1
    /\ SortedPrev # prev
    /\ Len(phrases) >= 2
    /\ phrases[1].start_time # SortedPrev[1].start_time
    /\ \E k \in 2..Len(phrases) : phrases[k].start_time # SortedPrev[k].start_time

-----------------------------------------------------------------------------
(* The sequence matcher on its own: one call of                             *)
(* find_word_sequence_in_auto_timestamps on a bounded token stream.         *)

MaxTokens == 4

MaxTargetLen == 2

\* The words the recogniser may emit: "go", "to", "Got"
StreamWords == { <<"g","o">>, <<"t","o">>, <<"G","o","t">> }

\* The words of a target sequence: "Go", "to", "got"
TargetWords == { <<"G","o">>, <<"t","o">>, <<"g","o","t">> }

\* Token k of a stream of n tokens lasts `slot` ms; the stream runs forward
\* in time, or backward (the producer does not guarantee ordered times).
SlotStart(k, n, slot, forward) == IF forward THEN slot * (k - 1) ELSE slot * (n - k)

Timed(ws, slot, forward) ==
    [k \in 1..Len(ws) |->
        [word  |-> ws[k],
         start |-> SlotStart(k, Len(ws), slot, forward),
         end   |-> SlotStart(k, Len(ws), slot, forward) + slot]]

StreamsOf(wordset, slots) ==
    {Timed(ws, slot, forward) :
        ws \in SeqsUpTo(wordset, MaxTokens) \ {<<>>},
        slot \in slots, forward \in BOOLEAN}

\* Two tokens "go" at 0.0-0.2 s and 0.6-0.8 s: times that are not binary
\* fractions of a second, with midpoints equally far from 0.4 s
OffGridStream ==
    << [word |-> <<"g", "o">>, start |-> 0, end |-> 200],
       [word |-> <<"g", "o">>, start |-> 600, end |-> 800] >>

MatcherStreams == StreamsOf(StreamWords, {1000}) \cup {OffGridStream}

MatcherTargets == SeqsUpTo(TargetWords, MaxTargetLen)

\* The hints: none, whole seconds, and 0.4 s
MatcherHints == {NoPosition} \cup {1000 * k : k \in 0..MaxTick} \cup {400}

InitMatcher ==
    /\ pc = "matcher"
    /\ auto_word_timestamps \in MatcherStreams
    /\ words \in MatcherTargets
    /\ position \in MatcherHints
    /\ start_timestamp = NoToken
    /\ end_timestamp = NoToken
    /\ phrases = <<>> /\ prev = <<>> /\ calls = 0
    /\ RunIdle
    /\ MainIdle
    /\ EstimatorIdle
    /\ AudioIdle

FindSequence ==
    /\ pc = "matcher"
    /\ LET found == find_word_sequence_in_auto_timestamps(
                        words, auto_word_timestamps, HintAt(position))
       IN /\ start_timestamp' = found[1]
          /\ end_timestamp' = found[2]
    /\ pc' = "matched"
    /\ UNCHANGED <<phrases, prev, calls, auto_word_timestamps, words, position, runVars>>
    /\ UNCHANGED <<mainVars, estimatorVars, audioVars>>

NextMatcher == FindSequence

SpecMatcher == InitMatcher /\ [][NextMatcher]_vars

\* The claim's own reading of a matching window: every token of the window
\* equals, contains or is contained in the corresponding normalized word.
CleanTarget == [k \in 1..Len(words) |-> CleanWord(words[k])]

WholeWindows ==
    {k \in 1..(Len(auto_word_timestamps) - Len(words) + 1) :
        \A j \in 1..Len(words) :
            LET w == Lower(auto_word_timestamps[k + j - 1].word)
            IN \/ w = CleanTarget[j]
               \/ Contains(w, CleanTarget[j])
               \/ Contains(CleanTarget[j], w)}

\* Twice the distance of the window's midpoint from the hint
HintDistance(k) ==
    Abs(auto_word_timestamps[k].start
        + auto_word_timestamps[k + Len(words) - 1].end - 2 * position)

\* C5 as stated: with a position hint and at least one whole-window match,
\* the call returns the first and last token of the matching window whose
\* midpoint is closest to the hint, the earliest such window in the stream on
\* a tie.
C5_ClosestWindowEarliestOnTie ==
    (pc = "matched" /\ words # <<>> /\ position # NoPosition /\ WholeWindows # {})
    => \E k \in WholeWindows :
          /\ start_timestamp = auto_word_timestamps[k]
          /\ end_timestamp = auto_word_timestamps[k + Len(words) - 1]
          /\ \A m \in WholeWindows :
                /\ HintDistance(k) <= HintDistance(m)
                /\ HintDistance(m) = HintDistance(k) => k <= m

\* The times of the call are binary fractions of a second (multiples of
\* 0.125 s): the floats of the code hold them, and the distances, exactly
BinaryTimes ==
    /\ position % 125 = 0
    /\ \A k \in 1..Len(auto_word_timestamps) :
          /\ auto_word_timestamps[k].start % 125 = 0
          /\ auto_word_timestamps[k].end % 125 = 0

\* The distance of window k as the code computes it, in floating point, is
\* less than that of window m
ComputedCloser(k, m) ==
    CloserWindow(auto_word_timestamps, k, m, Len(words), HintAt(position))

\* C5: with a position hint and at least one whole-window match, the call
\* returns the first and last token of a matching window whose midpoint is
\* closest to the hint; among windows whose computed distances are equal it
\* is the earliest in the stream, and windows at equal distance have equal
\* computed distances when the times are binary fractions of a second (for
\* other times the rounding of the floats may decide between them).
C5_ClosestWindow ==
    (pc = "matched" /\ words # <<>> /\ position # NoPosition /\ WholeWindows # {})
    => \E k \in WholeWindows :
          /\ start_timestamp = auto_word_timestamps[k]
          /\ end_timestamp = auto_word_timestamps[k + Len(words) - 1]
          /\ \A m \in WholeWindows :
                /\ HintDistance(k) <= HintDistance(m)
                /\ ~ComputedCloser(m, k)
                /\ ~ComputedCloser(k, m) => k <= m
                /\ (BinaryTimes /\ HintDistance(m) = HintDistance(k)) => k <= m

\* Two windows at equal distance from the hint, at times that are not binary
\* fractions: the later one was returned
C5_LaterOfEqual ==
    /\ pc = "matched" /\ auto_word_timestamps = OffGridStream /\ position = 400
    /\ WholeWindows = {1, 2}
    /\ HintDistance(1) = HintDistance(2)
    /\ start_timestamp = auto_word_timestamps[2]

\* C5 witness: a call with a hint where two windows tie for the closest, a
\* third lies farther away, and the earlier of the two was returned.
C5_Witness ==
    /\ pc = "matched" /\ words # <<>> /\ position # NoPosition
    /\ \E k, m, f \in WholeWindows :
          /\ k < m
          /\ HintDistance(k) = HintDistance(m)
          /\ HintDistance(f) > HintDistance(k)
          /\ \A o \in WholeWindows : HintDistance(o) >= HintDistance(k)
          /\ start_timestamp = auto_word_timestamps[k]
          /\ end_timestamp = auto_word_timestamps[k + Len(words) - 1]

-----------------------------------------------------------------------------
(* The word-timing matcher on its own: one call of find_word_by_timing with *)
(* the default tolerance.                                                   *)

\* The words the recogniser may emit: "cat", "Cats", "dog"
TimingStreamWords == { <<"c","a","t">>, <<"C","a","t","s">>, <<"d","o","g">> }

\* The words looked for: "cat", "Cat", "dog", "the", "The,"
TimingTargets ==
    { <<"c","a","t">>, <<"C","a","t">>, <<"d","o","g">>, <<"t","h","e">>,
      <<"T","h","e",",">> }

\* A stream where the word occurs once, at t = 50 s
RareWordStream == << [word |-> <<"d", "o", "g">>, start |-> 50000, end |-> 50400] >>

\* A stream where "the" occurs once, at t = 1 s, and a stream where it occurs
\* once between two other words
StopWordStream == << [word |-> <<"T", "h", "e">>, start |-> 1000, end |-> 1400] >>

StopWordAmongOthers ==
    << [word |-> <<"c", "a", "t">>, start |-> 0, end |-> 400],
       [word |-> <<"t", "h", "e">>, start |-> 500, end |-> 900],
       [word |-> <<"d", "o", "g">>, start |-> 1000, end |-> 1400] >>

\* Times that are not binary fractions of a second. From 0.0 s the midpoints
\* of the two tokens are 0.7 s and 1.2 s away, 0.5 s apart as numbers.
MarginStream ==
    << [word |-> <<"c", "a", "t">>, start |-> 600, end |-> 800],
       [word |-> <<"c", "a", "t">>, start |-> 1100, end |-> 1300] >>

\* From 2.1 s the midpoint of the first token is 1.7 s away, the tolerance as
\* a number
ToleranceStream ==
    << [word |-> <<"c", "a", "t">>, start |-> 200, end |-> 600],
       [word |-> <<"c", "a", "t">>, start |-> 60000, end |-> 60400] >>

TimingStreams ==
    StreamsOf(TimingStreamWords, {500, 1000})
        \cup {RareWordStream, StopWordStream, StopWordAmongOthers,
              MarginStream, ToleranceStream}

\* The grid of expected times, 2.1 s and 5 s
ExpectedTimes == {250 * k : k \in 0..(MaxTick + 2)} \cup {2100, 5000}

InitTiming ==
    /\ pc = "timing"
    /\ auto_word_timestamps \in TimingStreams
    /\ \E w \in TimingTargets : words = <<w>>
    /\ position \in ExpectedTimes
    /\ start_timestamp = NoToken
    /\ end_timestamp = NoToken
    /\ phrases = <<>> /\ prev = <<>> /\ calls = 0
    /\ RunIdle
    /\ MainIdle
    /\ EstimatorIdle
    /\ AudioIdle

FindByTiming ==
    /\ pc = "timing"
    /\ start_timestamp' =
          find_word_by_timing(words[1], auto_word_timestamps, position, Tolerance)
    /\ pc' = "timed"
    /\ UNCHANGED <<phrases, prev, calls, auto_word_timestamps, words, position,
                   end_timestamp, runVars>>
    /\ UNCHANGED <<mainVars, estimatorVars, audioVars>>

NextTiming == FindByTiming

SpecTiming == InitTiming /\ [][NextTiming]_vars

\* The tokens that match the word textually, and those among them whose
\* midpoint lies within the tolerance of expected_time (distances doubled)
TextualMatches ==
    {k \in 1..Len(auto_word_timestamps) :
        LET w == Lower(auto_word_timestamps[k].word)
            c == CleanWord(words[1])
        IN w = c \/ Contains(w, c) \/ Contains(c, w)}

ExpectedDistance(k) ==
    Abs(auto_word_timestamps[k].start + auto_word_timestamps[k].end - 2 * position)

WithinTolerance == {k \in TextualMatches : ExpectedDistance(k) <= 2 * Tolerance}

\* The closest match within the tolerance (the earliest on a tie) and the
\* second closest
Closest ==
    CHOOSE k \in WithinTolerance :
        \A m \in WithinTolerance :
            /\ ExpectedDistance(k) <= ExpectedDistance(m)
            /\ ExpectedDistance(m) = ExpectedDistance(k) => k <= m

SecondClosest ==
    CHOOSE k \in WithinTolerance \ {Closest} :
        \A m \in WithinTolerance \ {Closest} : ExpectedDistance(k) <= ExpectedDistance(m)

SeveralWithinTolerance ==
    /\ pc = "timed"
    /\ CleanWord(words[1]) \notin common_words
    /\ Cardinality(WithinTolerance) >= 2

\* C6: with two or more matches within the tolerance, the closest is returned
\* if and only if it is at least 0.5 s closer than the second closest (0.5 s
\* exactly included); otherwise the result is None.
C6_MarginAtLeastHalfSecond ==
    SeveralWithinTolerance =>
        IF ExpectedDistance(SecondClosest) - ExpectedDistance(Closest) >= 2 * Margin
        THEN start_timestamp = auto_word_timestamps[Closest]
        ELSE start_timestamp = NoToken

\* What the code does instead: the closest is returned when it is more than
\* 0.5 s closer than the second closest, and not when it is less than 0.5 s
\* closer; at exactly 0.5 s it is not returned when the times are binary
\* fractions of a second (for other times the rounding of the floats decides).
C6_MarginAboveHalfSecond ==
    SeveralWithinTolerance =>
        LET margin == ExpectedDistance(SecondClosest) - ExpectedDistance(Closest)
        IN /\ margin > 2 * Margin => start_timestamp = auto_word_timestamps[Closest]
           /\ margin < 2 * Margin => start_timestamp = NoToken
           /\ (margin = 2 * Margin /\ BinaryTimes) => start_timestamp = NoToken

\* At times that are not binary fractions the closest, 0.5 s closer as a
\* number, was returned: the float of 0.7 + 0.5 is below the float of the
\* second distance
C6_ExactMarginAccepted ==
    /\ SeveralWithinTolerance
    /\ auto_word_timestamps = MarginStream /\ position = 0
    /\ ExpectedDistance(SecondClosest) - ExpectedDistance(Closest) = 2 * Margin
    /\ start_timestamp = auto_word_timestamps[1]

\* A token whose distance is the tolerance as a number is not within the
\* tolerance for the code (the float of the distance is above the float of
\* 1.7), and with two textual matches the result is None
C6_AtToleranceOutside ==
    /\ pc = "timed"
    /\ auto_word_timestamps = ToleranceStream /\ position = 2100
    /\ words = << <<"c", "a", "t">> >>
    /\ ExpectedDistance(1) = 2 * Tolerance
    /\ start_timestamp = NoToken

\* A call with several matches within the tolerance, the closest exactly
\* 0.5 s closer than the second closest
C6_ExactMargin ==
    /\ SeveralWithinTolerance
    /\ ExpectedDistance(SecondClosest) - ExpectedDistance(Closest) = 2 * Margin

-----------------------------------------------------------------------------
(* adjust_phrase_timestamps: the three matcher states and the final update  *)

Found(token) == token # NoToken

\* words[:min(n, len(words))] and words[-min(n, len(words)):]
FirstN(ws, n) == SubSeq(ws, 1, Min(n, Len(ws)))

LastN(ws, n) == SubSeq(ws, Len(ws) - Min(n, Len(ws)) + 1, Len(ws))

RECURSIVE UpShift(_)
UpShift(t) == IF t >= 1000 THEN 0 ELSE 1 + UpShift(2 * t)

RECURSIVE DownShift(_)
DownShift(t) == IF t < 2000 THEN 0 ELSE 1 + DownShift(t \div 2)

\* The e for which t/1000 * 2^e lies in [2^52, 2^53): the float that json.load
\* makes of t/1000 seconds is the multiple of 2^-e nearest to it (t > 0)
FloatExponent(t) == IF t < 1000 THEN 52 + UpShift(t) ELSE 52 - DownShift(t)

\* The float of t/1000 seconds lies above t/1000: the part of t/1000 * 2^e
\* after the point, rho/1000, is more than a half
FloatAbove(t) == ((t % 1000) * Pow2Mod(FloatExponent(t))) % 1000 > 500

\* round(x, 2) of the float x read from the decimal t/1000 seconds, in ms: the
\* multiple of 10 ms nearest to the value of the float. On a decimal tie
\* (t ends in 5) the float decides: when t/1000 is a binary fraction (125 ms
\* divides t) the tie is exact and goes to the even multiple, otherwise it goes
\* to the side on which the float lies.
Round2(t) ==
    LET r == t % 10
    IN IF r < 5 THEN t - r
       ELSE IF r > 5 THEN t - r + 10
       ELSE IF t % 125 = 0
            THEN IF ((t - r) \div 10) % 2 = 0 THEN t - r ELSE t - r + 10
            ELSE IF FloatAbove(t) THEN t - r + 10 ELSE t - r

\* The position of the first token of the stream equal to `token`
\* (for i, word in enumerate(auto_word_timestamps): if word == token)
FirstEqual(toks, token) == MinOf({k \in 1..Len(toks) : toks[k] = token})

\* 1. the full sequence of words, positioned at the phrase's midpoint
FullSequenceMatch(phrase, toks) ==
    find_word_sequence_in_auto_timestamps(
        FindWords(phrase.text), toks,
        MidpointHint(phrase.start_time, phrase.end_time))

\* 2. the first and the last (up to) three words, positioned at the phrase's
\* start and end: both endpoints are assigned anew
BoundaryWordsMatch(phrase, toks) ==
    LET ws == FindWords(phrase.text)
    IN << find_word_sequence_in_auto_timestamps(FirstN(ws, 3), toks,
                                             HintAt(phrase.start_time))[1],
          find_word_sequence_in_auto_timestamps(LastN(ws, 3), toks,
                                             HintAt(phrase.end_time))[2] >>

\* Mutant of CrossPhraseStart: the guard `not start_timestamp` is missing
CrossPhraseStart_Unguarded(all_phrases, k, toks, start) ==
    IF k > 1
    THEN LET ws == FindWords(all_phrases[k].text)
             prev_words == FindWords(all_phrases[k - 1].text)
             transition_words == LastN(prev_words, 2) \o FirstN(ws, 2)
             t == find_word_sequence_in_auto_timestamps(
                      transition_words, toks, NoHint)[1]
             offset == Min(2, Len(prev_words))
         IN IF prev_words = <<>> THEN start
            ELSE IF ~Found(t) THEN t
            ELSE IF MinOf({j \in 1..Len(toks) : toks[j] = t}) + offset <= Len(toks)
                 THEN toks[MinOf({j \in 1..Len(toks) : toks[j] = t}) + offset]
                 ELSE t
    ELSE start

\* 3. start: the transition from the previous phrase, then the skip past the
\* previous phrase's words
CrossPhraseStart(all_phrases, k, toks, start) ==
    IF k > 1 /\ ~Found(start)
    THEN LET ws == FindWords(all_phrases[k].text)
             prev_words == FindWords(all_phrases[k - 1].text)
             transition_words == LastN(prev_words, 2) \o FirstN(ws, 2)
             t == find_word_sequence_in_auto_timestamps(
                      transition_words, toks, NoHint)[1]
             offset == Min(2, Len(prev_words))
         IN IF prev_words = <<>> THEN start
            ELSE IF ~Found(t) THEN t
            ELSE IF FirstEqual(toks, t) + offset <= Len(toks)
                 THEN toks[FirstEqual(toks, t) + offset]
                 ELSE t
    ELSE start

\* 3. end: the transition to the next phrase, then the step back over the
\* offset
CrossPhraseEnd(all_phrases, k, toks, end) ==
    IF k < Len(all_phrases) /\ ~Found(end)
    THEN LET ws == FindWords(all_phrases[k].text)
             next_words == FindWords(all_phrases[k + 1].text)
             transition_words == LastN(ws, 2) \o FirstN(next_words, 2)
             t == find_word_sequence_in_auto_timestamps(
                      transition_words, toks, NoHint)[2]
             offset == Min(2, Len(ws))
         IN IF next_words = <<>> THEN end
            ELSE IF ~Found(t) THEN t
            ELSE IF FirstEqual(toks, t) - offset >= 1
                 THEN toks[FirstEqual(toks, t) - offset]
                 ELSE t
    ELSE end

\* Mutant of AdjustedPhrase: the text is taken from the start token found
AdjustedPhrase_TextFromToken(phrase, start, end) ==
    [phrase EXCEPT
        !.start_time = IF Found(start) THEN start.start ELSE @,
        !.end_time = IF Found(end) THEN end.end ELSE @,
        !.text = IF Found(start) THEN start.word ELSE @]

\* Mutant of AdjustedPhrase: an end that was not found is taken from the
\* start token
AdjustedPhrase_EndFromStart(phrase, start, end) ==
    [phrase EXCEPT
        !.start_time = IF Found(start) THEN Round2(start.start) ELSE @,
        !.end_time = IF Found(end) THEN Round2(end.end)
                     ELSE IF Found(start) THEN Round2(start.end) ELSE @,
        !.text = phrase.text]

\* Lines 213-222: the times are taken from the tokens found, the text from
\* the input phrase
AdjustedPhrase(phrase, start, end) ==
    [phrase EXCEPT
        !.start_time = IF Found(start) THEN Round2(start.start) ELSE @,
        !.end_time = IF Found(end) THEN Round2(end.end) ELSE @,
        !.text = phrase.text]

-----------------------------------------------------------------------------
(* simple_adjust_timestamps: the body of the loop over the phrases *)

\* The first and the last position of a word that is not a common word
\* (len(words) + 1 and 0 when every word is common)
RECURSIVE FirstNonCommon(_, _)
FirstNonCommon(ws, k) ==
    IF k <= Len(ws) /\ Lower(ws[k]) \in common_words
    THEN FirstNonCommon(ws, k + 1) ELSE k

RECURSIVE LastNonCommon(_, _)
LastNonCommon(ws, k) ==
    IF k >= 1 /\ Lower(ws[k]) \in common_words
    THEN LastNonCommon(ws, k - 1) ELSE k

AnchorWords(ws) ==
    LET f == FirstNonCommon(ws, 1)
        l == LastNonCommon(ws, Len(ws))
    IN IF f > Len(ws) \/ l < 1 THEN <<ws[1], ws[Len(ws)]>> ELSE <<ws[f], ws[l]>>

\* first_word_timestamp and last_word_timestamp (lines 468-479); None for a
\* phrase without words, which the loop skips
AnchorTimestamps(phrase, toks) ==
    LET ws == FindWords(phrase.text)
        anchors == AnchorWords(ws)
    IN IF ws = <<>> THEN <<NoToken, NoToken>>
       ELSE << find_word_by_timing(anchors[1], toks, phrase.start_time, Tolerance),
               find_word_by_timing(anchors[2], toks, phrase.end_time, Tolerance) >>

SimplyAdjustedPhrase(phrase, toks) ==
    LET ws == FindWords(phrase.text)
        first_word_timestamp == AnchorTimestamps(phrase, toks)[1]
        last_word_timestamp == AnchorTimestamps(phrase, toks)[2]
    IN IF ws = <<>> THEN phrase
       ELSE [phrase EXCEPT
               !.start_time = IF Found(first_word_timestamp)
                              THEN Round2(first_word_timestamp.start) ELSE @,
               !.end_time = IF Found(last_word_timestamp)
                            THEN Round2(last_word_timestamp.end) ELSE @]

-----------------------------------------------------------------------------
(* One alignment run on one document: a call of adjust_timestamps or of     *)
(* simple_adjust_timestamps, step by step.                                  *)

MaxDocPhrases == 2

\* "I love cà phê"
CoffeeText ==
    <<"I", " ", "l", "o", "v", "e", " ", "c", "a_grave", " ", "p", "h", "e_circ">>

\* "Go to go home."
GoHomeText ==
    <<"G", "o", " ", "t", "o", " ", "g", "o", " ", "h", "o", "m", "e", ".">>

\* "..."
DotsText == <<".", ".", ".">>

Texts == {CoffeeText, GoHomeText, DotsText}

\* The proportional estimate gives phrase k the k-th span after an offset
Estimated(texts, offset, span) ==
    [k \in 1..Len(texts) |->
        [src |-> k, text |-> texts[k],
         start_time |-> offset + span * (k - 1),
         end_time |-> offset + span * k]]

\* "Hi!"
HiText == <<"H", "i", "!">>

\* A one-word phrase followed by a four-word phrase
GreetingDocument == Estimated(<<HiText, GoHomeText>>, 0, 1000)

\* "Go" at 1.27-1.34 s: the float midpoint (1.27 + 1.34) / 2 is
\* 1.3050000000000002, above the float of 1.305
MidpointDocument ==
    << [src |-> 1, text |-> <<"G", "o">>, start_time |-> 1270, end_time |-> 1340] >>

\* Two phrases without a word, the second inverted and ending before the
\* first does: the validator gives it the end 0.18 + 0.5, a float below the
\* float of 0.68
RepairedDocument ==
    << [src |-> 1, text |-> DotsText, start_time |-> 0, end_time |-> 180],
       [src |-> 2, text |-> DotsText, start_time |-> 780, end_time |-> 100] >>

Documents ==
    {Estimated(texts, plan[1], plan[2]) :
        texts \in SeqsUpTo(Texts, MaxDocPhrases) \ {<<>>},
        plan \in {<<0, 1000>>, <<2000, 2000>>}}
    \cup {GreetingDocument, MidpointDocument, RepairedDocument}

\* i 2.0-2.2, love 2.2-2.6, ca 2.6-3.0, phe 3.0-3.4
CoffeeStream ==
    << [word |-> <<"i">>, start |-> 2000, end |-> 2200],
       [word |-> <<"l", "o", "v", "e">>, start |-> 2200, end |-> 2600],
       [word |-> <<"c", "a">>, start |-> 2600, end |-> 3000],
       [word |-> <<"p", "h", "e">>, start |-> 3000, end |-> 3400] >>

\* go, to, go, home with times off the 10 ms grid
GoHomeStream ==
    << [word |-> <<"g", "o">>, start |-> 1003, end |-> 1496],
       [word |-> <<"t", "o">>, start |-> 1504, end |-> 1997],
       [word |-> <<"G", "o">>, start |-> 2001, end |-> 2502],
       [word |-> <<"h", "o", "m", "e">>, start |-> 2498, end |-> 3004] >>

\* hey 0.0-0.4, go 0.5-0.9, to 1.0-1.4, go 1.5-1.9, home 2.0-2.4
GreetingStream ==
    << [word |-> <<"h", "e", "y">>, start |-> 0, end |-> 400],
       [word |-> <<"g", "o">>, start |-> 500, end |-> 900],
       [word |-> <<"t", "o">>, start |-> 1000, end |-> 1400],
       [word |-> <<"g", "o">>, start |-> 1500, end |-> 1900],
       [word |-> <<"h", "o", "m", "e">>, start |-> 2000, end |-> 2400] >>

\* go 1.975-2.515, go 0.225-0.505: two windows whose midpoints 2.245 and
\* 0.365 are both 0.94 s from 1.305
MidpointStream ==
    << [word |-> <<"g", "o">>, start |-> 1975, end |-> 2515],
       [word |-> <<"g", "o">>, start |-> 225, end |-> 505] >>

RunStreams ==
    {Timed(ws, 1000, TRUE) : ws \in SeqsUpTo({<<"g", "o">>, <<"t", "o">>}, MaxTokens)}
    \cup {CoffeeStream, GoHomeStream, GreetingStream, MidpointStream}

\* A backup left by an earlier run
StaleBackup == File(Estimated(<<DotsText>>, 0, 10))

\* The ASR-grouped document; the alignment reads nothing of it but that it
\* loads
AutoDocument == Estimated(<<GoHomeText>>, 1000, 2000)

\* Each of the three input files is a complete document, absent, or not
\* valid JSON
CanonicalFiles == {File(doc) : doc \in Documents} \cup {Absent, Invalid}

AutoFiles == {File(AutoDocument), Absent, Invalid}

RawFiles == {File(stream) : stream \in RunStreams} \cup {Absent, Invalid}

Init ==
    /\ pc = "load"
    /\ \E canonical \in CanonicalFiles, auto \in AutoFiles, raw \in RawFiles,
          backup \in {Absent, StaleBackup} :
          /\ original = canonical.doc
          /\ files = [canonical |-> canonical, auto |-> auto, raw |-> raw,
                      adjusted |-> Absent, original |-> backup]
    /\ auto_word_timestamps = <<>>
    /\ simple \in BOOLEAN
    /\ replace_original \in BOOLEAN
    /\ phrases = <<>> /\ prev = <<>> /\ calls = 0
    /\ index = 0
    /\ words = <<>> /\ position = NoPosition
    /\ start_timestamp = NoToken /\ end_timestamp = NoToken
    /\ trail = <<>>
    /\ MainIdle
    /\ EstimatorIdle
    /\ AudioIdle

\* Where the loop over the phrases goes with phrase k of n
LoopPc(k, n) ==
    IF k > n THEN "validate" ELSE IF simple THEN "simple" ELSE "full_sequence"

\* Lines 278-294 (414-430): the canonical and the _auto document must load,
\* and the raw token stream must load as a non-empty list; otherwise the
\* call returns None
Load ==
    /\ pc = "load"
    /\ IF ~Loaded(files.canonical) \/ ~Loaded(files.auto)
       THEN /\ pc' = "failed"
            /\ UNCHANGED <<phrases, index, auto_word_timestamps>>
       ELSE IF ~Loaded(files.raw) \/ files.raw.doc = <<>>
       THEN /\ pc' = "failed"
            /\ UNCHANGED <<phrases, index, auto_word_timestamps>>
       ELSE /\ auto_word_timestamps' = files.raw.doc
            /\ phrases' = files.canonical.doc
            /\ index' = 1
            /\ pc' = LoopPc(1, Len(files.canonical.doc))
    /\ UNCHANGED <<prev, calls, words, position, start_timestamp, end_timestamp,
                   files, original, simple, replace_original, trail>>
    /\ UNCHANGED <<mainVars, estimatorVars, audioVars>>

Tried(state, start, end) == [state |-> state, start |-> start, end |-> end]

FullSequence ==
    /\ pc = "full_sequence"
    /\ IF FindWords(phrases[index].text) = <<>>
       THEN /\ index' = index + 1
            /\ pc' = LoopPc(index + 1, Len(phrases))
            /\ start_timestamp' = NoToken
            /\ end_timestamp' = NoToken
            /\ trail' = <<>>
       ELSE LET found == FullSequenceMatch(phrases[index], auto_word_timestamps)
            IN /\ start_timestamp' = found[1]
               /\ end_timestamp' = found[2]
               /\ trail' = <<Tried("full_sequence", found[1], found[2])>>
               /\ pc' = IF ~Found(found[1]) \/ ~Found(found[2])
                        THEN "boundary_words" ELSE "apply"
               /\ UNCHANGED index
    /\ UNCHANGED <<phrases, prev, calls, auto_word_timestamps, words, position,
                   files, original, simple, replace_original>>
    /\ UNCHANGED <<mainVars, estimatorVars, audioVars>>

BoundaryWords ==
    /\ pc = "boundary_words"
    /\ LET found == BoundaryWordsMatch(phrases[index], auto_word_timestamps)
       IN /\ start_timestamp' = found[1]
          /\ end_timestamp' = found[2]
          /\ trail' = Append(trail, Tried("boundary_words", found[1], found[2]))
          /\ pc' = IF ~Found(found[1]) \/ ~Found(found[2])
                   THEN "cross_phrase" ELSE "apply"
    /\ UNCHANGED <<phrases, prev, calls, auto_word_timestamps, words, position,
                   files, original, index, simple, replace_original>>
    /\ UNCHANGED <<mainVars, estimatorVars, audioVars>>

CrossPhrase ==
    /\ pc = "cross_phrase"
    /\ start_timestamp' =
          CrossPhraseStart(phrases, index, auto_word_timestamps, start_timestamp)
    /\ end_timestamp' =
          CrossPhraseEnd(phrases, index, auto_word_timestamps, end_timestamp)
    /\ trail' = Append(trail, Tried("cross_phrase", start_timestamp', end_timestamp'))
    /\ pc' = "apply"
    /\ UNCHANGED <<phrases, prev, calls, auto_word_timestamps, words, position,
                   files, original, index, simple, replace_original>>
    /\ UNCHANGED <<mainVars, estimatorVars, audioVars>>

ApplyTimestamps ==
    /\ pc = "apply"
    /\ phrases' = [phrases EXCEPT
                      ![index] = AdjustedPhrase(@, start_timestamp, end_timestamp)]
    /\ index' = index + 1
    /\ pc' = LoopPc(index + 1, Len(phrases))
    /\ UNCHANGED <<prev, calls, matcherVars, files, original, simple,
                   replace_original, trail>>
    /\ UNCHANGED <<mainVars, estimatorVars, audioVars>>

SimpleAdjust ==
    /\ pc = "simple"
    /\ start_timestamp' = AnchorTimestamps(phrases[index], auto_word_timestamps)[1]
    /\ end_timestamp' = AnchorTimestamps(phrases[index], auto_word_timestamps)[2]
    /\ phrases' = [phrases EXCEPT
                      ![index] = SimplyAdjustedPhrase(@, auto_word_timestamps)]
    /\ index' = index + 1
    /\ pc' = LoopPc(index + 1, Len(phrases))
    /\ UNCHANGED <<prev, calls, auto_word_timestamps, words, position, files,
                   original, simple, replace_original, trail>>
    /\ UNCHANGED <<mainVars, estimatorVars, audioVars>>

ValidateDialogue ==
    /\ pc = "validate"
    /\ prev' = phrases
    /\ phrases' = validate_and_fix_timestamps(phrases)
    /\ calls' = calls + 1
    /\ pc' = "write_open"
    /\ UNCHANGED <<matcherVars, runVars>>
    /\ UNCHANGED <<mainVars, estimatorVars, audioVars>>

\* Mutant of AfterWrite: the canonical file is overwritten without a backup
AfterWrite_NoBackup == IF replace_original THEN "replace_open" ELSE "done"

\* The step after the _adjusted file is written: the backup comes before the
\* canonical file is overwritten; with --no-replace the run ends
AfterWrite == IF replace_original THEN "backup_open" ELSE "done"

\* open(output_path, 'w') truncates; json.dump then writes the document
OpenAdjusted ==
    /\ pc = "write_open"
    /\ files' = [files EXCEPT !.adjusted = Partial]
    /\ pc' = "write"
    /\ UNCHANGED <<phrases, prev, calls, matcherVars, original, index, simple,
                   replace_original, trail>>
    /\ UNCHANGED <<mainVars, estimatorVars, audioVars>>

WriteAdjusted ==
    /\ pc = "write"
    /\ files' = [files EXCEPT !.adjusted = File(phrases)]
    /\ pc' = AfterWrite
    /\ UNCHANGED <<phrases, prev, calls, matcherVars, original, index, simple,
                   replace_original, trail>>
    /\ UNCHANGED <<mainVars, estimatorVars, audioVars>>

\* shutil.copy2(src, dst) opens dst for writing, then copies the content
OpenBackup ==
    /\ pc = "backup_open"
    /\ files' = [files EXCEPT !.original = Partial]
    /\ pc' = "backup"
    /\ UNCHANGED <<phrases, prev, calls, matcherVars, original, index, simple,
                   replace_original, trail>>
    /\ UNCHANGED <<mainVars, estimatorVars, audioVars>>

CopyToBackup ==
    /\ pc = "backup"
    /\ files' = [files EXCEPT !.original = files.canonical]
    /\ pc' = "replace_open"
    /\ UNCHANGED <<phrases, prev, calls, matcherVars, original, index, simple,
                   replace_original, trail>>
    /\ UNCHANGED <<mainVars, estimatorVars, audioVars>>

OpenCanonical ==
    /\ pc = "replace_open"
    /\ files' = [files EXCEPT !.canonical = Partial]
    /\ pc' = "replace"
    /\ UNCHANGED <<phrases, prev, calls, matcherVars, original, index, simple,
                   replace_original, trail>>
    /\ UNCHANGED <<mainVars, estimatorVars, audioVars>>

CopyToCanonical ==
    /\ pc = "replace"
    /\ files' = [files EXCEPT !.canonical = files.adjusted]
    /\ pc' = "done"
    /\ UNCHANGED <<phrases, prev, calls, matcherVars, original, index, simple,
                   replace_original, trail>>
    /\ UNCHANGED <<mainVars, estimatorVars, audioVars>>

Next ==
    \/ Load
    \/ FullSequence
    \/ BoundaryWords
    \/ CrossPhrase
    \/ ApplyTimestamps
    \/ SimpleAdjust
    \/ ValidateDialogue
    \/ OpenAdjusted
    \/ WriteAdjusted
    \/ OpenBackup
    \/ CopyToBackup
    \/ OpenCanonical
    \/ CopyToCanonical

Spec == Init /\ [][Next]_vars

-----------------------------------------------------------------------------
(* Claims on the alignment run *)

InRun == pc \notin {"load", "failed", "validator", "matcher", "matched", "timing", "timed"}

\* Every phrase of the input document occurs once in ps, with its own text
TextKept(ps) ==
    /\ Len(ps) = Len(original)
    /\ {ps[k].src : k \in 1..Len(ps)} = 1..Len(original)
    /\ \A k \in 1..Len(ps) : ps[k].text = original[ps[k].src].text

\* C3: in the full and in the simple mode, every phrase of the document keeps
\* its pre-alignment text: in the working list at every step and in every
\* file the run has written.
C3_TextUnchanged ==
    InRun =>
        /\ TextKept(phrases)
        /\ files.adjusted.state = "complete" => TextKept(files.adjusted.doc)
        /\ files.canonical.state = "complete" => TextKept(files.canonical.doc)

\* C3 witness: a completed full-mode run that moved a time of a phrase with
\* words and reordered the phrases.
C3_Witness ==
    /\ pc = "done" /\ ~simple
    /\ files.adjusted.state = "complete"
    /\ \E k \in 1..Len(phrases) :
          /\ FindWords(phrases[k].text) # <<>>
          /\ phrases[k].src # k
          /\ \/ phrases[k].start_time # original[phrases[k].src].start_time
             \/ phrases[k].end_time # original[phrases[k].src].end_time

StateOrder == <<"full_sequence", "boundary_words", "cross_phrase">>

\* C4 as claimed: a token found for an endpoint by an earlier state is never
\* replaced by a later state.
C4_FirstSuccessWins ==
    \A a, b \in 1..Len(trail) :
        a < b =>
            /\ Found(trail[a].start) => trail[b].start = trail[a].start
            /\ Found(trail[a].end) => trail[b].end = trail[a].end

\* C4 as amended: the states are tried in the order full-sequence,
\* boundary-words, cross-phrase, each one only while an endpoint is
\* unresolved; the cross-phrase state never replaces a token the
\* boundary-words state holds (the boundary-words state itself decides both
\* endpoints anew).
C4_OrderAndCrossPhraseKeeps ==
    /\ Len(trail) <= 3
    /\ \A k \in 1..Len(trail) : trail[k].state = StateOrder[k]
    /\ \A k \in 2..Len(trail) : ~(Found(trail[k - 1].start) /\ Found(trail[k - 1].end))
    /\ Len(trail) = 3 =>
          /\ Found(trail[2].start) => trail[3].start = trail[2].start
          /\ Found(trail[2].end) => trail[3].end = trail[2].end
    /\ (pc = "apply" /\ trail # <<>>) =>
          /\ start_timestamp = trail[Len(trail)].start
          /\ end_timestamp = trail[Len(trail)].end

\* C4 witness: the boundary-words state replaced the start token of the
\* full-sequence state, and the cross-phrase state then resolved the end and
\* kept that start.
C4_Witness ==
    /\ pc = "apply" /\ Len(trail) = 3
    /\ Found(trail[1].start) /\ Found(trail[2].start)
    /\ trail[2].start # trail[1].start
    /\ ~Found(trail[2].end) /\ Found(trail[3].end)
    /\ trail[3].start = trail[2].start

\* The end-to-end example: 'I love cà phê' at 2.0-4.0 against the tokens
\* i, love, ca, phe, in the full mode
CoffeeRun ==
    /\ original = Estimated(<<CoffeeText>>, 2000, 2000)
    /\ auto_word_timestamps = CoffeeStream
    /\ ~simple

\* C7 as claimed: the run sets start_time to 2.0 and end_time to 3.4.
C7_CoffeeAligned ==
    (CoffeeRun /\ pc = "done") =>
        /\ files.adjusted.doc[1].start_time = 2000
        /\ files.adjusted.doc[1].end_time = 3400

\* C7 as amended: 'cà' and 'phê' match no token (none equals, contains or is
\* contained in them), so only the start is found, at the token 'i' through
\* the boundary-word fallback: start_time is 2.0 and end_time keeps its input
\* value 4.0.
C7_CoffeeStartOnly ==
    /\ (CoffeeRun /\ pc = "apply") =>
          /\ start_timestamp = CoffeeStream[1]
          /\ end_timestamp = NoToken
    /\ (CoffeeRun /\ pc = "done") =>
          /\ files.adjusted.doc[1].start_time = 2000
          /\ files.adjusted.doc[1].end_time = 4000

\* C7 witness: the example run has completed.
C7_Witness ==
    /\ CoffeeRun /\ pc = "done"
    /\ files.adjusted = File(phrases)
    /\ Len(trail) = 3

\* C8: in a replace-mode run the _adjusted file is complete before the backup
\* is begun and the backup is complete before the canonical file is touched,
\* so at every step the prior content of the canonical file is in the
\* canonical file or in the backup; after the run the backup holds the
\* prior content and the canonical file the adjusted document.
C8_WriteBackupReplace ==
    (InRun /\ replace_original) =>
        /\ files.canonical = File(original) \/ files.original = File(original)
        /\ pc \in {"backup_open", "backup", "replace_open", "replace", "done"}
              => files.adjusted = File(phrases)
        /\ files.canonical # File(original)
              => /\ files.original = File(original)
                 /\ files.adjusted = File(phrases)
        /\ pc = "done" =>
              /\ files.original = File(original)
              /\ files.canonical = File(phrases)
              /\ files.adjusted = File(phrases)

\* C8 witness: the run stands between opening the canonical file for writing
\* and completing the copy, over a backup left by an earlier run; the adjusted
\* document differs from the prior content.
C8_Witness ==
    /\ replace_original /\ pc = "replace"
    /\ files.canonical = Partial
    /\ files.original = File(original)
    /\ files.original # StaleBackup
    /\ phrases # original

-----------------------------------------------------------------------------
(* Further claims on the validator *)

\* The list is ordered by start_time, every phrase has start_time < end_time
\* and no phrase ends after the start of the next one
AlreadyValid(ps) == OrderedByStart(ps) /\ StartBeforeEnd(ps) /\ NoOverlap(ps)

\* C11: the validator called on an already-valid list (ordered by start_time,
\* every start_time < end_time, every end_time <= the next start_time)
\* returns it as it was: same order, same start_time and end_time everywhere.
C11_ValidIsNoOp ==
    (pc = "validator" /\ calls >= 1 /\ AlreadyValid(prev)) => phrases = prev

\* C11 witness: the first call was made on a valid list of two or more
\* phrases, one of them ending exactly where the next begins.
C11_Witness ==
    /\ pc = "validator" /\ calls = 1
    /\ Len(prev) >= 2 /\ AlreadyValid(prev)
    /\ \E k \in 1..(Len(prev) - 1) : prev[k].end_time = prev[k + 1].start_time
    /\ phrases = prev

\* The list after the sort and the first k iterations of the repair loop of
\* the last call
RECURSIVE AfterIterations(_)
AfterIterations(k) ==
    IF k = 0 THEN SortedPrev ELSE FixPhrase(AfterIterations(k - 1), k)

Inverted(p) == TimeLeq(p.end_time, p.start_time)

\* C19: the validator changes start_time only of phrases that had
\* start_time >= end_time; the end_time of a phrase with start_time < end_time
\* is lowered to exactly the start_time of the next phrase when it exceeds
\* that start and is left alone otherwise; the iteration that repairs an
\* overlap modifies no phrase but the earlier one of the pair.  (The stable
\* sort puts the phrase of position k of the sorted input at position k of
\* the result.)
C19_OnlyInvertedStartsAndClampedEnds ==
    (pc = "validator" /\ calls >= 1) =>
        /\ Len(phrases) = Len(SortedPrev)
        /\ \A k \in 1..Len(phrases) :
              /\ phrases[k].src = SortedPrev[k].src
              /\ ~Inverted(SortedPrev[k]) =>
                    /\ phrases[k].start_time = SortedPrev[k].start_time
                    /\ phrases[k].end_time =
                          IF /\ k < Len(phrases)
                             /\ TimeLess(SortedPrev[k + 1].start_time,
                                         SortedPrev[k].end_time)
                          THEN SortedPrev[k + 1].start_time
                          ELSE SortedPrev[k].end_time
                    /\ (k < Len(phrases) /\ phrases[k].end_time # SortedPrev[k].end_time)
                          => phrases[k].end_time = phrases[k + 1].start_time
              /\ \A j \in 1..Len(phrases) :
                    j # k => AfterIterations(k)[j] = AfterIterations(k - 1)[j]

\* C19 witness: the input [{0,5},{3,8}] has become [{0,3},{3,8}].
C19_Witness ==
    /\ pc = "validator" /\ calls = 1
    /\ prev = OverlapExample
    /\ phrases = [OverlapExample EXCEPT ![1].end_time = 3000]

-----------------------------------------------------------------------------
(* Further claims on the sequence matcher *)

\* The positions of the tokens that match the normalized word w
MatchesOf(w) ==
    {k \in 1..Len(auto_word_timestamps) :
        LET a == Lower(auto_word_timestamps[k].word)
        IN a = w \/ Contains(a, w) \/ Contains(w, a)}

FirstTargetMatches == MatchesOf(CleanTarget[1])

LastTargetMatches == MatchesOf(CleanTarget[Len(words)])

\* C12: the call falls back to the boundary words only when no contiguous
\* window matches the whole target: with a matching window the result is the
\* first and last token of one; without, the start is the first token in
\* stream order that matches the first target word and the end the last
\* token in stream order that matches the last target word, each decided
\* without regard to the other and each None when no token matches.
C12_BoundaryWordFallback ==
    (pc = "matched" /\ words # <<>>) =>
        IF WholeWindows # {}
        THEN \E k \in WholeWindows :
                /\ start_timestamp = auto_word_timestamps[k]
                /\ end_timestamp = auto_word_timestamps[k + Len(words) - 1]
        ELSE /\ start_timestamp =
                   IF FirstTargetMatches = {} THEN NoToken
                   ELSE auto_word_timestamps[MinOf(FirstTargetMatches)]
             /\ end_timestamp =
                   IF LastTargetMatches = {} THEN NoToken
                   ELSE auto_word_timestamps[MaxOf(LastTargetMatches)]

\* C12 witness: no window matches; several tokens match the first word and
\* the earliest was returned as the start; the end returned lies before it in
\* the stream.
C12_Witness ==
    /\ pc = "matched" /\ Len(words) >= 2 /\ WholeWindows = {}
    /\ Cardinality(FirstTargetMatches) >= 2
    /\ Cardinality(LastTargetMatches) >= 2
    /\ start_timestamp = auto_word_timestamps[MinOf(FirstTargetMatches)]
    /\ end_timestamp = auto_word_timestamps[MaxOf(LastTargetMatches)]
    /\ MaxOf(LastTargetMatches) < MinOf(FirstTargetMatches)

\* C12 second case: no window matches, the start is found and the end is None.
C12_StartOnly ==
    /\ pc = "matched" /\ WholeWindows = {}
    /\ Found(start_timestamp) /\ ~Found(end_timestamp)

\* C20: a call without a position hint on a stream with at least one window
\* matching the whole target returns the first and last token of the matching
\* window that comes earliest in the stream.
C20_EarliestWindowWithoutHint ==
    (pc = "matched" /\ words # <<>> /\ position = NoPosition /\ WholeWindows # {})
    => /\ start_timestamp = auto_word_timestamps[MinOf(WholeWindows)]
       /\ end_timestamp = auto_word_timestamps[MinOf(WholeWindows) + Len(words) - 1]

\* C20 witness: a call without a hint for a target of two words on a stream
\* whose times run backward, with two matching windows; the one earlier in
\* the stream (later in time) was returned.
C20_Witness ==
    /\ pc = "matched" /\ Len(words) = 2 /\ position = NoPosition
    /\ Cardinality(WholeWindows) >= 2
    /\ auto_word_timestamps[1].start > auto_word_timestamps[2].start
    /\ start_timestamp = auto_word_timestamps[MinOf(WholeWindows)]
    /\ end_timestamp = auto_word_timestamps[MinOf(WholeWindows) + 1]
    /\ MinOf(WholeWindows) > 1

-----------------------------------------------------------------------------
(* Further claims on the word-timing matcher *)

\* C13: when the word is not a common word and no token matching it has its
\* midpoint within the tolerance of expected_time, the whole stream is
\* searched without regard to time: the result is the matching token when
\* exactly one token of the stream matches the word, and None with no or
\* with several matching tokens.
C13_SingleMatchAnywhere ==
    (/\ pc = "timed"
     /\ CleanWord(words[1]) \notin common_words
     /\ WithinTolerance = {})
    => start_timestamp =
          IF Cardinality(TextualMatches) = 1
          THEN auto_word_timestamps[MinOf(TextualMatches)]
          ELSE NoToken

\* C13 witness: the word occurs once, at t = 50 s, the expected time is 5 s,
\* and the token was returned.
C13_Witness ==
    /\ pc = "timed"
    /\ auto_word_timestamps = RareWordStream
    /\ position = 5000
    /\ WithinTolerance = {}
    /\ TextualMatches = {1}
    /\ start_timestamp = RareWordStream[1]

\* C13 second case: several tokens match, none within the tolerance, and the
\* result is None.
C13_SeveralOutOfReach ==
    /\ pc = "timed"
    /\ CleanWord(words[1]) \notin common_words
    /\ WithinTolerance = {}
    /\ Cardinality(TextualMatches) >= 2
    /\ start_timestamp = NoToken

-----------------------------------------------------------------------------
(* Further claims on the alignment run *)

\* The per-phrase step has just completed on the phrase before `index`:
\* start_timestamp and end_timestamp are the tokens it ended with (in the
\* full mode after the last state tried, in the simple mode the results of
\* the two anchor lookups), and the list has not been sorted yet.
PhraseStepDone ==
    /\ pc \in {"full_sequence", "simple", "validate"}
    /\ calls = 0
    /\ index > 1

\* C14: an endpoint for which the per-phrase step ended without a token keeps
\* its input (proportional-estimate) time, in the full and in the simple
\* mode, and the step completes: the loop has moved on to the next phrase or
\* to the validator with the list at its full length.
C14_UnresolvedEndpointKept ==
    PhraseStepDone =>
        /\ Len(phrases) = Len(original)
        /\ index <= Len(phrases) + 1
        /\ ~Found(start_timestamp) =>
              phrases[index - 1].start_time = original[index - 1].start_time
        /\ ~Found(end_timestamp) =>
              phrases[index - 1].end_time = original[index - 1].end_time

\* C14 witness: a full-mode step tried all three states, ended with a start
\* token and no end token, moved start_time and left end_time at its input.
C14_Witness ==
    /\ PhraseStepDone /\ ~simple
    /\ Len(trail) = 3
    /\ Found(start_timestamp) /\ ~Found(end_timestamp)
    /\ phrases[index - 1].start_time # original[index - 1].start_time
    /\ phrases[index - 1].end_time = original[index - 1].end_time

\* C14 in the simple mode, the ambiguous case: several tokens match the first
\* anchor word within the tolerance, none clearly closer, the lookup gave
\* None and start_time is left at its input, while the end was found and
\* moved.
C14_SimpleAmbiguous ==
    /\ PhraseStepDone /\ simple
    /\ ~Found(start_timestamp) /\ Found(end_timestamp)
    /\ LET p == original[index - 1]
           w == CleanWord(AnchorWords(FindWords(p.text))[1])
       IN Cardinality({k \in 1..Len(auto_word_timestamps) :
              /\ TokenMatches(auto_word_timestamps[k], w)
              /\ MidDiff(auto_word_timestamps, k, p.start_time) <= 2 * Tolerance}) >= 2
    /\ phrases[index - 1].start_time = original[index - 1].start_time
    /\ phrases[index - 1].end_time # original[index - 1].end_time

\* One of the three input files is absent or is not valid JSON
InputUnreadable ==
    \/ files.canonical.state \in {"absent", "invalid"}
    \/ files.auto.state \in {"absent", "invalid"}
    \/ files.raw.state \in {"absent", "invalid"}

\* C16: when the canonical document, the _auto document or the raw
\* word-timestamp file is absent or is not valid JSON, the call of
\* adjust_timestamps or simple_adjust_timestamps ends at once returning None,
\* and no file is created or modified: the canonical, _adjusted and _original
\* files are as they were.
C16_UnreadableInputLeavesFiles ==
    [][(pc = "load" /\ InputUnreadable) => (pc' = "failed" /\ files' = files)]_vars

\* C16 witness: a replacing call has returned None because the raw
\* word-timestamp file is not valid JSON, with the canonical and the _auto
\* document in order; the canonical file holds its prior content, no
\* _adjusted file exists and the backup of an earlier run is still there.
C16_Witness ==
    /\ pc = "failed" /\ replace_original
    /\ files.raw = Invalid
    /\ Loaded(files.canonical) /\ Loaded(files.auto)
    /\ original # <<>> /\ files.canonical = File(original)
    /\ files.adjusted = Absent
    /\ files.original = StaleBackup

\* C16 on the states: a call that has returned None has left no _adjusted
\* file and has not touched the canonical file.
C16_FailedTouchedNothing ==
    pc = "failed" =>
        /\ files.adjusted = Absent
        /\ files.canonical.doc = original
        /\ files.original \in {Absent, StaleBackup}

-----------------------------------------------------------------------------
(* adjust_timestamps and simple_adjust_timestamps as single calls *)

\* Line 150: the pair held after state 1 goes through state 2 when an
\* endpoint is missing
ThroughBoundaryWords(held, phrase, toks) ==
    IF ~Found(held[1]) \/ ~Found(held[2])
    THEN BoundaryWordsMatch(phrase, toks)
    ELSE held

\* Line 168: the pair held after state 2 goes through state 3 when an
\* endpoint is missing
ThroughCrossPhrase(held, all_phrases, k, toks) ==
    IF ~Found(held[1]) \/ ~Found(held[2])
    THEN << CrossPhraseStart(all_phrases, k, toks, held[1]),
            CrossPhraseEnd(all_phrases, k, toks, held[2]) >>
    ELSE held

\* Lines 213-224 on the pair held after the last state
WithTimesOf(phrase, held) == AdjustedPhrase(phrase, held[1], held[2])

\* adjust_phrase_timestamps(phrase, auto_word_timestamps, all_phrases, k):
\* the three matcher states in order, each entered while an endpoint is
\* missing, then the update of the times
adjust_phrase_timestamps(all_phrases, k, toks) ==
    IF FindWords(all_phrases[k].text) = <<>> THEN all_phrases[k]
    ELSE WithTimesOf(all_phrases[k],
             ThroughCrossPhrase(
                 ThroughBoundaryWords(FullSequenceMatch(all_phrases[k], toks),
                                      all_phrases[k], toks),
                 all_phrases, k, toks))

\* The loop over the phrases of the strategy fn, then the validator
AlignedDialogue(fn, doc, toks) ==
    validate_and_fix_timestamps(
        [k \in 1..Len(doc) |->
            IF fn = "simple_adjust_timestamps"
            THEN SimplyAdjustedPhrase(doc[k], toks)
            ELSE adjust_phrase_timestamps(doc, k, toks)])

\* The call fn(original_json_path, auto_json_path, replace_original=replace)
\* on the files e of one document: the files after the call, and whether it
\* returned the output path or None
\* Lines 313-332: the _adjusted file is written; with replace_original the
\* canonical file is copied to the backup and the _adjusted file over it
Written(e, adjusted, replace) ==
    IF replace
    THEN [e EXCEPT !.adjusted = adjusted, !.original = e.canonical,
                   !.canonical = adjusted]
    ELSE [e EXCEPT !.adjusted = adjusted]

AlignmentCall(fn, e, replace) ==
    IF ~Loaded(e.canonical) \/ ~Loaded(e.auto)
    THEN [files |-> e, returned |-> "None"]
    ELSE IF ~Loaded(e.raw) \/ e.raw.doc = <<>>
    THEN [files |-> e, returned |-> "None"]
    ELSE [files |-> Written(e, File(AlignedDialogue(fn, e.canonical.doc, e.raw.doc)),
                            replace),
          returned |-> "output_path"]

\* The strategy a stepwise run follows
RunStrategy == IF simple THEN "simple_adjust_timestamps" ELSE "adjust_timestamps"

\* The stepwise run and the single call agree: a run that has ended has left
\* the files the call leaves, started from the same files.
CallAgreesWithSteps ==
    /\ pc = "done" =>
          \E backup \in {Absent, StaleBackup} :
              files = AlignmentCall(RunStrategy,
                          [files EXCEPT !.canonical = File(original),
                                        !.adjusted = Absent,
                                        !.original = backup],
                          replace_original).files
    /\ pc = "failed" =>
          AlignmentCall(RunStrategy, files, replace_original) =
              [files |-> files, returned |-> "None"]

-----------------------------------------------------------------------------
(* main(): one document named by --dialogue-id, or every document found     *)
(* under config.AUDIO_PATH.                                                 *)

\* The documents dialogue_a1.json, dialogue_b2.json, dialogue_g7.json and
\* dialogue_x_dialogue_a1.json, each named by what stands between
\* 'dialogue_' and '.json'
DocA == <<"a", "1">>

DocB == <<"b", "2">>

DocG == <<"g", "7">>

DocX == <<"x", "_", "d", "i", "a", "l", "o", "g", "u", "e", "_", "a", "1">>

DocIds == {DocA, DocB, DocG, DocX}

HexDigits ==
    {"a", "b", "c", "d", "e", "f", "0", "1", "2", "3", "4", "5", "6", "7", "8", "9"}

DialoguePrefix == <<"d", "i", "a", "l", "o", "g", "u", "e", "_">>

JsonSuffix == <<".", "j", "s", "o", "n">>

\* os.path.basename(original_json_path)
Basename(id) == DialoguePrefix \o id \o JsonSuffix

\* The length of the run of hex digits of `name` that begins at position p
HexRun(name, p) ==
    CHOOSE n \in 0..Len(name) :
        /\ \A k \in p..(p + n - 1) : k <= Len(name) /\ name[k] \in HexDigits
        /\ p + n > Len(name) \/ name[p + n] \notin HexDigits

\* r'dialogue_([a-f0-9]+)\.json' matches `name` from position p on
MatchesAt(name, p) ==
    /\ SubSeq(name, p, p + 8) = DialoguePrefix
    /\ HexRun(name, p + 9) >= 1
    /\ SubSeq(name, p + 9 + HexRun(name, p + 9), p + 13 + HexRun(name, p + 9))
          = JsonSuffix

MatchPositions(name) == {p \in 1..(Len(name) - 14) : MatchesAt(name, p)}

\* re.search(r'dialogue_([a-f0-9]+)\.json', basename) matches: the search is
\* not anchored, the pattern may match further in than the start of the name
HasDialogueId(id) == MatchPositions(Basename(id)) # {}

\* match.group(1) of the leftmost match
DialogueIdOf(id) ==
    LET name == Basename(id)
        p == MinOf(MatchPositions(name))
    IN SubSeq(name, p + 9, p + 8 + HexRun(name, p + 9))

\* The document and the token stream each id has when its files are in order
DocumentOf(id) ==
    IF id \in {DocA, DocX} THEN Estimated(<<CoffeeText>>, 2000, 2000)
    ELSE IF id = DocB THEN Estimated(<<GoHomeText, DotsText>>, 0, 1000)
    ELSE Estimated(<<GoHomeText>>, 0, 1000)

StreamOf(id) == IF id \in {DocA, DocX} THEN CoffeeStream ELSE GoHomeStream

\* The files of a document: each input complete, absent or not valid JSON
EntriesOf(id) ==
    {[canonical |-> canonical, auto |-> auto, raw |-> raw,
      adjusted |-> Absent, original |-> IF id = DocA THEN StaleBackup ELSE Absent] :
        canonical \in {File(DocumentOf(id)), Absent, Invalid},
        auto \in AutoFiles,
        raw \in {File(StreamOf(id)), Absent, Invalid}}

\* dialogue_x_dialogue_a1.json has no _auto file of its own name
HealthyEntry(id) ==
    [canonical |-> File(DocumentOf(id)),
     auto |-> IF id = DocX THEN Absent ELSE File(AutoDocument),
     raw |-> File(StreamOf(id)), adjusted |-> Absent, original |-> Absent]

Arguments ==
    [dialogue_id : {NoId} \cup DocIds, simple : BOOLEAN, no_replace : BOOLEAN]

InitMain ==
    /\ pc = "main"
    /\ args \in Arguments
    /\ \E ea \in EntriesOf(DocA), eb \in EntriesOf(DocB) :
          directory = [id \in DocIds |->
                          IF id = DocA THEN ea
                          ELSE IF id = DocB THEN eb
                          ELSE HealthyEntry(id)]
    /\ pending = <<>>
    /\ journal = <<>>
    /\ runs = <<>>
    /\ phrases = <<>> /\ prev = <<>> /\ calls = 0
    /\ MatcherIdle
    /\ EstimatorIdle
    /\ AudioIdle
    /\ RunIdle

\* Mutant of ReplaceOriginal: the flag is not read
ReplaceOriginal_Always(no_replace) == TRUE

\* replace_original = not args.no_replace
ReplaceOriginal(no_replace) == ~no_replace

\* The strategy of the --dialogue-id branch: the flag decides
SingleStrategy ==
    IF args.simple THEN "simple_adjust_timestamps" ELSE "adjust_timestamps"

\* Mutant of BatchStrategy: the flag decides in the batch as well
BatchStrategy_ByFlag == SingleStrategy

\* The strategy of the batch loop: simple_adjust_timestamps, whatever the flag
BatchStrategy == "simple_adjust_timestamps"

\* What main() did with a document
Noted(id, called, returned) == [id |-> id, called |-> called, returned |-> returned]

\* os.path.exists(path)
Exists(file) == file.state # "absent"

\* The document has been put through the function `called`: its files are as
\* the call left them and the outcome is noted
Settle(id, called, call) ==
    /\ directory' = [directory EXCEPT
                         ![id] = [call.files EXCEPT !.auto = directory[id].auto]]
    /\ journal' = Append(journal, Noted(id, called, call.returned))

\* The document was passed over without a call
PassOver(id) ==
    /\ journal' = Append(journal, Noted(id, "none", "None"))
    /\ UNCHANGED directory

\* Lines 521-549: --dialogue-id given
ProcessOne ==
    /\ pc = "main"
    /\ args.dialogue_id # NoId
    /\ replace_original' = ReplaceOriginal(args.no_replace)
    /\ IF \/ ~Exists(directory[args.dialogue_id].canonical)
          \/ ~Exists(directory[args.dialogue_id].auto)
       THEN PassOver(args.dialogue_id)
       ELSE Settle(args.dialogue_id, SingleStrategy,
                   AlignmentCall(SingleStrategy, directory[args.dialogue_id],
                                 replace_original'))
    /\ pc' = "exit"
    /\ UNCHANGED <<phrases, prev, calls, matcherVars, files, original, index,
                   simple, trail, args, pending, runs, estimatorVars,
                   audioVars>>

\* glob.glob('dialogue_*.json'): the dialogue_<id><suffix>.json files present
\* (word_timestamps_<id>.json does not match the pattern)
GlobDialogueFiles ==
    {<<id, "">> : id \in {d \in DocIds : Exists(directory[d].canonical)}}
    \cup {<<id, "_auto">> : id \in {d \in DocIds : Exists(directory[d].auto)}}
    \cup {<<id, "_adjusted">> : id \in {d \in DocIds : Exists(directory[d].adjusted)}}
    \cup {<<id, "_original">> : id \in {d \in DocIds : Exists(directory[d].original)}}

\* The filter of line 555
OriginalJsonFiles ==
    {f[1] : f \in {g \in GlobDialogueFiles :
                      g[2] \notin {"_auto", "_adjusted", "_no_punctuation", "_original"}}}

\* The orders in which glob may list the members of S
Orderings(S) ==
    {order \in [1..Cardinality(S) -> S] :
        \A i, j \in 1..Cardinality(S) : i # j => order[i] # order[j]}

\* Lines 521-561: no --dialogue-id; the documents are listed
Discover ==
    /\ pc = "main"
    /\ args.dialogue_id = NoId
    /\ replace_original' = ReplaceOriginal(args.no_replace)
    /\ pending' \in Orderings(OriginalJsonFiles)
    /\ pc' = IF OriginalJsonFiles = {} THEN "exit" ELSE "batch"
    /\ UNCHANGED <<phrases, prev, calls, matcherVars, files, original, index,
                   simple, trail, args, directory, journal, runs,
                   estimatorVars, audioVars>>

\* Mutant of AfterDocument: the loop is left when a document fails
AfterDocument_StopAtFailure(returned, rest) ==
    IF rest = <<>> \/ returned = "None" THEN "exit" ELSE "batch"

\* The for loop takes the next path whatever became of this one
AfterDocument(returned, rest) == IF rest = <<>> THEN "exit" ELSE "batch"

\* Lines 572-574: dialogue_<dialogue_id>_auto.json for the id taken from the
\* file name, which need not be the _auto file of the document's own name
BatchAutoFile(id) ==
    IF HasDialogueId(id) /\ DialogueIdOf(id) \in DocIds
    THEN directory[DialogueIdOf(id)].auto
    ELSE Absent

\* Lines 564-580: one iteration of the batch loop
BatchStep ==
    /\ pc = "batch"
    /\ pending # <<>>
    /\ IF ~HasDialogueId(Head(pending)) \/ ~Exists(BatchAutoFile(Head(pending)))
       THEN PassOver(Head(pending))
       ELSE Settle(Head(pending), BatchStrategy,
                   AlignmentCall(BatchStrategy,
                                 [directory[Head(pending)] EXCEPT
                                     !.auto = BatchAutoFile(Head(pending))],
                                 replace_original))
    /\ pending' = Tail(pending)
    /\ pc' = AfterDocument(journal'[Len(journal')].returned, pending')
    /\ UNCHANGED <<phrases, prev, calls, matcherVars, files, original, index,
                   simple, replace_original, trail, args, runs,
                   estimatorVars, audioVars>>

NextMain == ProcessOne \/ Discover \/ BatchStep

SpecMain == InitMain /\ [][NextMain]_vars

\* The batch loop going on to its next path.  Under [][NextMain]_vars the
\* steps that satisfy it are the BatchStep steps, and it is enabled exactly
\* when BatchStep is: in the loop with a path left.
NextPath ==
    /\ pc = "batch"
    /\ pending # <<>>
    /\ pending' = Tail(pending)

\* main() runs in one thread and nothing suspends the loop: an iteration
\* that can be taken is taken
SpecMainLive == SpecMain /\ WF_pending(NextPath)

-----------------------------------------------------------------------------
(* Claims on main() *)

FlagStrategy ==
    IF args.simple THEN "simple_adjust_timestamps" ELSE "adjust_timestamps"

\* The document of journal entry k was aligned by the function `fn`: the call
\* was of that function, and where it returned the output path the _adjusted
\* file holds what that strategy makes of the document.
AlignedBy(k, fn) ==
    /\ journal[k].called = fn
    /\ journal[k].returned = "output_path" =>
          directory[journal[k].id].adjusted =
              File(AlignedDialogue(fn, DocumentOf(journal[k].id),
                                   StreamOf(journal[k].id)))

\* C15 as claimed: every document main() aligns is aligned with the strategy
\* the flag names, adjust_timestamps without --simple and
\* simple_adjust_timestamps with it, under --dialogue-id and in the batch.
C15_FlagSelectsStrategy ==
    \A k \in 1..Len(journal) :
        journal[k].called # "none" => AlignedBy(k, FlagStrategy)

\* C15 as amended: under --dialogue-id the flag selects the strategy; in the
\* batch every document is aligned with simple_adjust_timestamps, with or
\* without --simple.
C15_FlagSelectsOnlyWithDialogueId ==
    \A k \in 1..Len(journal) :
        journal[k].called # "none" =>
            IF args.dialogue_id # NoId
            THEN AlignedBy(k, FlagStrategy)
            ELSE AlignedBy(k, "simple_adjust_timestamps")

\* C15 witness: a batch without --simple has ended; document a1 was aligned
\* by simple_adjust_timestamps, and its _adjusted file is not what
\* adjust_timestamps makes of it.
C15_Witness ==
    /\ pc = "exit" /\ args.dialogue_id = NoId /\ ~args.simple
    /\ \E k \in 1..Len(journal) :
          /\ journal[k].id = DocA
          /\ journal[k].called = "simple_adjust_timestamps"
          /\ journal[k].returned = "output_path"
          /\ directory[DocA].adjusted =
                File(AlignedDialogue("simple_adjust_timestamps",
                                     DocumentOf(DocA), StreamOf(DocA)))
          /\ directory[DocA].adjusted #
                File(AlignedDialogue("adjust_timestamps",
                                     DocumentOf(DocA), StreamOf(DocA)))

\* C15, the other half: --dialogue-id without --simple aligned a1 by
\* adjust_timestamps, and the result differs from the simple strategy's.
C15_SingleFull ==
    /\ pc = "exit" /\ args.dialogue_id = DocA /\ ~args.simple
    /\ Len(journal) = 1 /\ AlignedBy(1, "adjust_timestamps")
    /\ journal[1].returned = "output_path"
    /\ directory[DocA].adjusted #
          File(AlignedDialogue("simple_adjust_timestamps",
                               DocumentOf(DocA), StreamOf(DocA)))

\* The documents the batch has to attend to: listed by the glob, kept by the
\* filter, with an id the loop can extract
Eligible == {id \in OriginalJsonFiles : HasDialogueId(id)}

\* The three input files the batch reads for the document are in order
InOrder(id) ==
    /\ Loaded(directory[id].canonical)
    /\ Loaded(BatchAutoFile(id))
    /\ Loaded(directory[id].raw) /\ directory[id].raw.doc # <<>>

Visited(id) == \E k \in 1..Len(journal) : journal[k].id = id

\* C17: in the batch every eligible document that was listed is eventually
\* attended to, whatever became of the documents before it: one whose _auto
\* or raw word-timestamp file is missing or whose JSON does not parse is
\* passed over, and every document whose files are in order is aligned and
\* written.
C17_BatchReachesEveryDocument ==
    \A id \in DocIds :
        (pc = "batch" /\ id \in Eligible /\ ~Visited(id))
        ~> (/\ Visited(id)
            /\ Exists(directory[id].adjusted) <=> InOrder(id))

\* C17 witness: the batch has ended; the first document it came to failed
\* inside the call (raw word timestamps missing or unparsable, or a document
\* that does not parse) and a later one was aligned and written.
C17_Witness ==
    /\ pc = "exit" /\ args.dialogue_id = NoId
    /\ Len(journal) >= 2
    /\ journal[1].called = "simple_adjust_timestamps"
    /\ journal[1].returned = "None"
    /\ \E k \in 2..Len(journal) :
          /\ journal[k].returned = "output_path"
          /\ Loaded(directory[journal[k].id].adjusted)

\* C18: with --no-replace no step of main() changes a canonical file or an
\* _original backup (none is created, none is overwritten), the input files
\* are left alone as well, and every call that returns the output path has
\* written the _adjusted file.
C18_NoReplaceWritesOnlyAdjusted ==
    [][args.no_replace =>
          /\ \A id \in DocIds :
                /\ directory'[id].canonical = directory[id].canonical
                /\ directory'[id].original = directory[id].original
                /\ directory'[id].auto = directory[id].auto
                /\ directory'[id].raw = directory[id].raw
          /\ (Len(journal') > Len(journal)
              /\ journal'[Len(journal')].returned = "output_path")
                => /\ Loaded(directory'[journal'[Len(journal')].id].adjusted)
                   /\ ~Exists(directory[journal'[Len(journal')].id].adjusted)]_vars

\* C18 witness: a run with --no-replace has ended; a1 has an _adjusted file
\* that differs from its canonical file, which holds the prior document, and
\* the backup of an earlier run is as it was; b2, aligned as well, has no
\* backup.
C18_Witness ==
    /\ pc = "exit" /\ args.no_replace /\ ~replace_original
    /\ Loaded(directory[DocA].adjusted)
    /\ directory[DocA].adjusted # directory[DocA].canonical
    /\ directory[DocA].canonical = File(DocumentOf(DocA))
    /\ directory[DocA].original = StaleBackup
    /\ Loaded(directory[DocB].adjusted)
    /\ directory[DocB].original = Absent

\* The tolerances a caller may pass (seconds in ms): none, half a second,
\* the default, one minute
Tolerances == {0, 500, Tolerance, 60000}

\* C21: for a word whose normalized form is in the stoplist of function
\* words, find_word_by_timing returns None for every stream, every
\* expected_time and every tolerance, also when the word occurs exactly once
\* in the stream.
C21_StopWordNeverMatched ==
    (pc = "timed" /\ CleanWord(words[1]) \in common_words)
    => /\ start_timestamp = NoToken
       /\ \A tolerance \in Tolerances :
             find_word_by_timing(words[1], auto_word_timestamps, position,
                                 tolerance) = NoToken

\* C21 witness: "The," was looked for at 1 s in a stream where "the"
\* occurs once, within the tolerance of the expected time, and the result is
\* None.
C21_Witness ==
    /\ pc = "timed"
    /\ words[1] = <<"T", "h", "e", ",">>
    /\ CleanWord(words[1]) \in common_words
    /\ Cardinality(TextualMatches) = 1
    /\ WithinTolerance = TextualMatches
    /\ position = 1000
    /\ start_timestamp = NoToken

-----------------------------------------------------------------------------
(* Alignment calls on two documents side by side: each call goes through   *)
(* its reads, the alignment in memory and its writes, and the steps of the  *)
(* two calls interleave in any order.  A call is made on its own or as the  *)
(* last step of process_audio_file_complete, after the estimator and the    *)
(* recogniser have written the files it loads.  One more process may run    *)
(* alongside on the files of one of the documents:                          *)
(* cleanup_associated_files of generate_background.py, which removes them   *)
(* one at a time, generate_timestamp_json or generate_auto_timestamps,      *)
(* which write them anew.  Files are as on POSIX: a file can be removed     *)
(* while it is open, and what is written to it then is lost; two processes  *)
(* that hold a file open each write from its beginning.                     *)

\* The documents aligned side by side
Runners == {DocA, DocB}

\* A file of the directory is named by the document and the kind of file
ReadFile(dir, path) == dir[path[1]][path[2]]

WriteFile(dir, path, content) == [dir EXCEPT ![path[1]][path[2]] = content]

OriginalJsonPath(id) == <<id, "canonical">>

AutoJsonPath(id) == <<id, "auto">>

\* os.path.join(config.AUDIO_PATH, f"word_timestamps_{dialogue_id}.json")
RawWordJsonPath(id) == <<id, "raw">>

\* Mutant of OutputPath: every call writes to the same output file
OutputPath_Fixed(id) == <<DocA, "adjusted">>

\* original_json_path.replace('.json', '_adjusted.json')
OutputPath(id) == <<id, "adjusted">>

\* original_json_path.replace('.json', '_original.json')
BackupPath(id) == <<id, "original">>

\* What load_json_file returns: the content, or None (Absent) for a file
\* that is absent or not valid JSON
LoadJsonFile(dir, path) ==
    IF Loaded(ReadFile(dir, path)) THEN ReadFile(dir, path) ELSE Absent

Strategies == {"adjust_timestamps", "simple_adjust_timestamps"}

\* A call that has not begun. fsrc is what the source file of the copy in
\* progress held when shutil.copy2 opened it, lookups counts the names
\* copystat has looked up
CallOf(fn, replace) ==
    [pc |-> "load_original", fn |-> fn, replace |-> replace,
     pipeline |-> FALSE, skip_steps |-> {},
     original_data |-> Absent, auto_data |-> Absent,
     auto_word_timestamps |-> <<>>, adjusted_data |-> <<>>, fsrc |-> Absent,
     lookups |-> 0]

\* process_audio_file_complete(audio_file, skip_steps=...) that has not
\* begun, on an audio file whose dialogue is found and whose speech is
\* recognised, so that each step it does not skip writes its files: it ends
\* with simple_adjust_timestamps(..., replace_original=True)
PipelineOf(skip_steps) ==
    [CallOf("simple_adjust_timestamps", TRUE) EXCEPT
        !.pc = "generate_open", !.pipeline = TRUE, !.skip_steps = skip_steps]

\* The skip_steps that make a difference: none, the alignment, the
\* recognition and with it the alignment (a module that could not be
\* imported, VOSK_AVAILABLE or ADJUST_AVAILABLE unset, acts as its step
\* skipped)
SkipSteps == {{}, {"adjust"}, {"auto"}}

Event(id, what) == [id |-> id, event |-> what]

\* The files cleanup_associated_files(id, audio_path) looks for, in the order
\* of its patterns: the canonical, the _auto, the _adjusted and the raw word
\* file (the _no_punctuation and .csv files are no files of the model). The
\* _original backup is not among them.
CleanupPaths(id) ==
    << <<id, "canonical">>, <<id, "auto">>, <<id, "adjusted">>, <<id, "raw">> >>

\* cleanup_associated_files has been called on the files of id
Cleaned(id) == \E k \in 1..Len(journal) : journal[k] = Event(id, "cleanup")

\* The functions that run in a process of their own beside the calls
OutsideCalls == {"cleanup", "generate_timestamp_json", "generate_auto_timestamps"}

\* One of them has been called on the files of id
Touched(id) ==
    \E k \in 1..Len(journal) :
        journal[k].id = id /\ journal[k].event \in OutsideCalls

\* The files a call starts from: those of EntriesOf(id) with every input
\* complete or one of them not: the canonical file not valid JSON, the _auto
\* file not valid JSON or the raw word file absent
ParallelEntries(id) ==
    {e \in EntriesOf(id) :
        <<e.canonical.state, e.auto.state, e.raw.state>>
            \in {<<"complete", "complete", "complete">>,
                 <<"invalid", "complete", "complete">>,
                 <<"complete", "invalid", "complete">>,
                 <<"complete", "complete", "absent">>}}

\* One step of the process beside the calls: its call, or what it does to
\* one file
Operation(op, path, content) == [op |-> op, path |-> path, content |-> content]

\* The process is called on the files of document id
Called(what, id) == <<Operation("call", <<id, what>>, Absent)>>

\* with open(path, 'w') as f: json.dump(content, f), in its two steps
Writes(path, content) ==
    <<Operation("open", path, content), Operation("dump", path, content)>>

\* generate_background.py lines 55-91: cleanup_associated_files(id, ...)
\* visits the paths of its patterns and removes each file that exists
cleanup_associated_files(id) ==
    Called("cleanup", id)
        \o [k \in 1..Len(CleanupPaths(id)) |->
               Operation("remove", CleanupPaths(id)[k], Absent)]

\* generate_dialogue_timestamps.py lines 387-445: generate_timestamp_json
\* on the audio file of id comes to write the estimated document to the
\* canonical file
generate_timestamp_json(id) ==
    Called("generate_timestamp_json", id)
        \o Writes(OriginalJsonPath(id), File(DocumentOf(id)))

\* auto_subtitle.py lines 418-520: generate_auto_timestamps on the audio
\* file of id comes to write the recognised words to the raw word file and
\* then the grouped phrases to the _auto file
generate_auto_timestamps(id) ==
    Called("generate_auto_timestamps", id)
        \o Writes(RawWordJsonPath(id), File(StreamOf(id)))
        \o Writes(AutoJsonPath(id), File(AutoDocument))

\* What runs beside the calls, in a process of its own: nothing, or one of
\* these on the files of id
Besides(id) ==
    {<<>>, cleanup_associated_files(id), generate_timestamp_json(id),
     generate_auto_timestamps(id)}

\* The calls made on a document: either function with either
\* replace_original, or the pipeline with either skip_steps
ParallelCalls ==
    {CallOf(fn, replace) : fn \in Strategies, replace \in BOOLEAN}
        \cup {PipelineOf(skip_steps) : skip_steps \in SkipSteps}

\* The calls start from any of the entries when they run by themselves, and
\* from complete files when a process runs beside them on the files of a1
InitParallel ==
    /\ pc = "parallel"
    /\ \E ea \in ParallelEntries(DocA), eb \in ParallelEntries(DocB) :
          directory = [id \in DocIds |->
                          IF id = DocA THEN ea
                          ELSE IF id = DocB THEN eb
                          ELSE HealthyEntry(id)]
    /\ original = directory
    /\ runs \in [Runners -> ParallelCalls]
    /\ journal = <<>>
    /\ pending \in Besides(DocA)
    /\ pending # <<>>
          => \A id \in Runners :
                /\ Loaded(directory[id].canonical)
                /\ Loaded(directory[id].auto)
                /\ Loaded(directory[id].raw)
    /\ args = [dialogue_id |-> NoId, simple |-> FALSE, no_replace |-> FALSE]
    /\ files = NoFiles /\ index = 0 /\ simple = FALSE
    /\ replace_original = FALSE /\ trail = <<>>
    /\ phrases = <<>> /\ prev = <<>> /\ calls = 0
    /\ MatcherIdle
    /\ EstimatorIdle
    /\ AudioIdle

parallelUnchanged ==
    <<pc, phrases, prev, calls, matcherVars, files, original, index, simple,
      replace_original, trail, args, estimatorVars, audioVars>>

\* What `content`, written from the beginning of the open file dst, may leave
\* there.  A file removed since it was opened stays absent; nothing written
\* leaves the file as it is; a file still empty takes the content.  When
\* another process has written to the file since it was opened, the content
\* replaces what is there if it is as long, and is followed by the rest of
\* it, which no JSON parser accepts, if it is shorter.
WrittenThrough(dir, dst, content) ==
    IF ReadFile(dir, dst) = Absent \/ content = Partial THEN {dir}
    ELSE IF ReadFile(dir, dst) \in {Partial, content} \/ content = Invalid
    THEN {WriteFile(dir, dst, content)}
    ELSE {WriteFile(dir, dst, content), WriteFile(dir, dst, Invalid)}

\* with open(path, 'w') as f: the file is created or truncated, and the
\* steps from there go on at pc `then`
Opens(r, path, then) ==
    /\ directory' = WriteFile(directory, path, Partial)
    /\ runs' = [runs EXCEPT ![r].pc = then]

\* json.dump(content, f) and the end of the with block: the content is
\* written and the steps go on at pc `then`, or the call has ended
Dumps(r, path, content, then) ==
    /\ directory' \in WrittenThrough(directory, path, content)
    /\ runs' = [runs EXCEPT ![r].pc = then]
    /\ journal' = IF then \in {"done", "missing"}
                  THEN Append(journal, Event(r, "end")) ELSE journal

\* generate_dialogue_timestamps.py line 441, reached from line 466:
\* generate_timestamp_json opens the canonical file for writing
OpenInitial(r) ==
    /\ runs[r].pc = "generate_open"
    /\ Opens(r, OriginalJsonPath(r), "generate_dump")
    /\ journal' = Append(journal, Event(r, "begin"))
    /\ UNCHANGED pending
    /\ UNCHANGED parallelUnchanged

\* Lines 442-445, 468-493: the estimated document is written; the pipeline
\* ends here when the recognition is skipped
DumpInitial(r) ==
    /\ runs[r].pc = "generate_dump"
    /\ Dumps(r, OriginalJsonPath(r), File(DocumentOf(r)),
             IF "auto" \in runs[r].skip_steps THEN "done" ELSE "raw_open")
    /\ UNCHANGED pending
    /\ UNCHANGED parallelUnchanged

\* auto_subtitle.py line 490, reached from line 495 of
\* generate_dialogue_timestamps.py: generate_auto_timestamps opens the raw
\* word file for writing
OpenRaw(r) ==
    /\ runs[r].pc = "raw_open"
    /\ Opens(r, RawWordJsonPath(r), "raw_dump")
    /\ UNCHANGED <<journal, pending>>
    /\ UNCHANGED parallelUnchanged

\* auto_subtitle.py line 491: the recognised words are written
DumpRaw(r) ==
    /\ runs[r].pc = "raw_dump"
    /\ Dumps(r, RawWordJsonPath(r), File(StreamOf(r)), "auto_open")
    /\ UNCHANGED pending
    /\ UNCHANGED parallelUnchanged

\* auto_subtitle.py line 516: the _auto file is opened for writing
OpenAuto(r) ==
    /\ runs[r].pc = "auto_open"
    /\ Opens(r, AutoJsonPath(r), "auto_dump")
    /\ UNCHANGED <<journal, pending>>
    /\ UNCHANGED parallelUnchanged

\* auto_subtitle.py lines 517-520, generate_dialogue_timestamps.py lines
\* 497-502: the grouped phrases are written; the pipeline ends here when
\* the alignment is skipped
DumpAuto(r) ==
    /\ runs[r].pc = "auto_dump"
    /\ Dumps(r, AutoJsonPath(r), File(AutoDocument),
             IF "adjust" \in runs[r].skip_steps THEN "done"
             ELSE "exists_original")
    /\ UNCHANGED pending
    /\ UNCHANGED parallelUnchanged

\* os.path.exists(path) of line 507: without the file the pipeline ends
\* with "Missing JSON files", with it the steps go on at pc `then`
PathExists(r, path, then) ==
    /\ runs' = [runs EXCEPT ![r].pc = IF ReadFile(directory, path) = Absent
                                      THEN "missing" ELSE then]
    /\ journal' = IF ReadFile(directory, path) = Absent
                  THEN Append(journal, Event(r, "end")) ELSE journal

\* Line 507: os.path.exists(original_json_path)
ExistsOriginal(r) ==
    /\ runs[r].pc = "exists_original"
    /\ PathExists(r, OriginalJsonPath(r), "exists_auto")
    /\ UNCHANGED <<directory, pending>>
    /\ UNCHANGED parallelUnchanged

\* Lines 507-509: os.path.exists(auto_json_path), and then
\* simple_adjust_timestamps(original_json_path, auto_json_path,
\* replace_original=True)
ExistsAuto(r) ==
    /\ runs[r].pc = "exists_auto"
    /\ PathExists(r, AutoJsonPath(r), "load_original")
    /\ UNCHANGED <<directory, pending>>
    /\ UNCHANGED parallelUnchanged

\* Line 278: original_data = load_json_file(original_json_path)
LoadOriginal(r) ==
    /\ runs[r].pc = "load_original"
    /\ runs' = [runs EXCEPT ![r].original_data =
                                LoadJsonFile(directory, OriginalJsonPath(r)),
                            ![r].pc = "load_auto"]
    /\ journal' = IF runs[r].pipeline THEN journal
                  ELSE Append(journal, Event(r, "begin"))
    /\ UNCHANGED <<directory, pending>>
    /\ UNCHANGED parallelUnchanged

\* Lines 279-282: auto_data = load_json_file(auto_json_path), and None is
\* returned when either load failed
LoadAuto(r) ==
    /\ runs[r].pc = "load_auto"
    /\ IF ~Loaded(runs[r].original_data)
          \/ ~Loaded(LoadJsonFile(directory, AutoJsonPath(r)))
       THEN /\ runs' = [runs EXCEPT ![r].auto_data =
                                        LoadJsonFile(directory, AutoJsonPath(r)),
                                    ![r].pc = "failed"]
            /\ journal' = Append(journal, Event(r, "end"))
       ELSE /\ runs' = [runs EXCEPT ![r].auto_data =
                                        LoadJsonFile(directory, AutoJsonPath(r)),
                                    ![r].pc = "load_raw"]
            /\ UNCHANGED journal
    /\ UNCHANGED <<directory, pending>>
    /\ UNCHANGED parallelUnchanged

\* Lines 285-291: the raw word timestamps are loaded; None is returned when
\* they are missing or empty
LoadRaw(r) ==
    /\ runs[r].pc = "load_raw"
    /\ IF LoadJsonFile(directory, RawWordJsonPath(r)).doc = <<>>
       THEN /\ runs' = [runs EXCEPT ![r].pc = "failed"]
            /\ journal' = Append(journal, Event(r, "end"))
       ELSE /\ runs' = [runs EXCEPT ![r].auto_word_timestamps =
                                        LoadJsonFile(directory, RawWordJsonPath(r)).doc,
                                    ![r].pc = "align"]
            /\ UNCHANGED journal
    /\ UNCHANGED <<directory, pending>>
    /\ UNCHANGED parallelUnchanged

\* Lines 293-311: the phrases are aligned in memory and validated.
\* adjusted_data = original_data.copy() is a shallow copy: both documents hold
\* the one list of phrases, which the loop fills and the validator sorts and
\* repairs in place, so original_data ends with the aligned phrases as well.
Align(r) ==
    /\ runs[r].pc = "align"
    /\ \E aligned \in {AlignedDialogue(runs[r].fn, runs[r].original_data.doc,
                                        runs[r].auto_word_timestamps)} :
          runs' = [runs EXCEPT ![r].adjusted_data = aligned,
                               ![r].original_data = File(aligned),
                               ![r].pc = "write_open"]
    /\ UNCHANGED <<directory, journal, pending>>
    /\ UNCHANGED parallelUnchanged

\* Line 318: open(output_path, 'w') creates or truncates the _adjusted file
TruncateOutput(r) ==
    /\ runs[r].pc = "write_open"
    /\ Opens(r, OutputPath(r), "write")
    /\ UNCHANGED <<journal, pending>>
    /\ UNCHANGED parallelUnchanged

\* Lines 319-321: json.dump writes the document; without replace_original
\* the call returns
WriteOutput(r) ==
    /\ runs[r].pc = "write"
    /\ Dumps(r, OutputPath(r), File(runs[r].adjusted_data),
             IF runs[r].replace THEN "backup_source" ELSE "done")
    /\ UNCHANGED pending
    /\ UNCHANGED parallelUnchanged

\* shutil.copy2(src, dst) opens src for reading, and the call raises
\* FileNotFoundError when src is absent; the steps from there go on at pc
\* `then`
OpenSource(r, src, then) ==
    IF ReadFile(directory, src) = Absent
    THEN /\ runs' = [runs EXCEPT ![r].pc = "raised"]
         /\ journal' = Append(journal, Event(r, "raised"))
    ELSE /\ runs' = [runs EXCEPT ![r].fsrc = ReadFile(directory, src),
                                 ![r].pc = then]
         /\ UNCHANGED journal

\* What the open source file of the call holds: what is at its name, or
\* what it held when it was opened if it has been removed since
SourceContent(dir, call, src) ==
    IF ReadFile(dir, src) = Absent THEN call.fsrc ELSE ReadFile(dir, src)

\* The names shutil.copystat(src, dst) looks up, in turn: os.stat(src),
\* os.utime(dst), os.listxattr(src) and os.chmod(dst)
CopyStatLookups(src, dst) == <<src, dst, src, dst>>

\* One lookup of shutil.copystat(src, dst): FileNotFoundError is raised when
\* the name is absent, and after the last lookup shutil.copy2 returns and
\* the steps go on at pc `then`, or the call has ended
CopyStat(r, src, dst, then) ==
    LET path == CopyStatLookups(src, dst)[runs[r].lookups + 1]
        last == runs[r].lookups + 1 = Len(CopyStatLookups(src, dst))
    IN  IF ReadFile(directory, path) = Absent
        THEN /\ runs' = [runs EXCEPT ![r].pc = "raised", ![r].lookups = 0]
             /\ journal' = Append(journal, Event(r, "raised"))
        ELSE IF last
        THEN /\ runs' = [runs EXCEPT ![r].pc = then, ![r].lookups = 0]
             /\ journal' = IF then = "done"
                           THEN Append(journal, Event(r, "end")) ELSE journal
        ELSE /\ runs' = [runs EXCEPT ![r].lookups = @ + 1]
             /\ UNCHANGED journal

\* Lines 324-327: shutil.copy2(original_json_path, backup_path) opens the
\* canonical file for reading
OpenOriginal(r) ==
    /\ runs[r].pc = "backup_source"
    /\ OpenSource(r, OriginalJsonPath(r), "backup_open")
    /\ UNCHANGED <<directory, pending>>
    /\ UNCHANGED parallelUnchanged

\* Line 327: then it opens the backup for writing, which creates or
\* truncates it
TruncateBackup(r) ==
    /\ runs[r].pc = "backup_open"
    /\ Opens(r, BackupPath(r), "backup")
    /\ UNCHANGED <<journal, pending>>
    /\ UNCHANGED parallelUnchanged

\* Line 327: the content of the canonical file is copied to the backup
\* and both files are closed
BackUp(r) ==
    /\ runs[r].pc = "backup"
    /\ directory' \in WrittenThrough(directory, BackupPath(r),
                          SourceContent(directory, runs[r], OriginalJsonPath(r)))
    /\ runs' = [runs EXCEPT ![r].pc = "backup_stat"]
    /\ UNCHANGED <<journal, pending>>
    /\ UNCHANGED parallelUnchanged

\* Line 327: then copystat(original_json_path, backup_path), one lookup at
\* a time
CopyStatBackup(r) ==
    /\ runs[r].pc = "backup_stat"
    /\ CopyStat(r, OriginalJsonPath(r), BackupPath(r), "replace_source")
    /\ UNCHANGED <<directory, pending>>
    /\ UNCHANGED parallelUnchanged

\* Line 331: shutil.copy2(output_path, original_json_path) opens the
\* _adjusted file for reading
OpenOutput(r) ==
    /\ runs[r].pc = "replace_source"
    /\ OpenSource(r, OutputPath(r), "replace_open")
    /\ UNCHANGED <<directory, pending>>
    /\ UNCHANGED parallelUnchanged

\* Line 331: then it opens the canonical file for writing, which creates or
\* truncates it
TruncateOriginal(r) ==
    /\ runs[r].pc = "replace_open"
    /\ Opens(r, OriginalJsonPath(r), "replace")
    /\ UNCHANGED <<journal, pending>>
    /\ UNCHANGED parallelUnchanged

\* Line 331: the content of the _adjusted file is copied over the canonical
\* file and both files are closed
Overwrite(r) ==
    /\ runs[r].pc = "replace"
    /\ directory' \in WrittenThrough(directory, OriginalJsonPath(r),
                          SourceContent(directory, runs[r], OutputPath(r)))
    /\ runs' = [runs EXCEPT ![r].pc = "replace_stat"]
    /\ UNCHANGED <<journal, pending>>
    /\ UNCHANGED parallelUnchanged

\* Lines 331-334: then copystat(output_path, original_json_path), one
\* lookup at a time, and the call returns
CopyStatOriginal(r) ==
    /\ runs[r].pc = "replace_stat"
    /\ CopyStat(r, OutputPath(r), OriginalJsonPath(r), "done")
    /\ UNCHANGED <<directory, pending>>
    /\ UNCHANGED parallelUnchanged

\* The process beside the calls is called: generate_background.py line 55,
\* generate_dialogue_timestamps.py line 387 or auto_subtitle.py line 418
CallNext ==
    /\ pending # <<>>
    /\ Head(pending).op = "call"
    /\ journal' = Append(journal, Event(Head(pending).path[1],
                                        Head(pending).path[2]))
    /\ pending' = Tail(pending)
    /\ UNCHANGED <<directory, runs>>
    /\ UNCHANGED parallelUnchanged

\* generate_background.py lines 82-90, one pass of the loop: the file is
\* removed if it exists, also while a call holds it open
RemoveNext ==
    /\ pending # <<>>
    /\ Head(pending).op = "remove"
    /\ directory' = WriteFile(directory, Head(pending).path, Absent)
    /\ pending' = Tail(pending)
    /\ UNCHANGED <<journal, runs>>
    /\ UNCHANGED parallelUnchanged

\* generate_dialogue_timestamps.py lines 441-442, auto_subtitle.py lines
\* 490-491 and 516-517: the process beside the calls opens the file it
\* writes next, or writes the content to the file it has opened
WriteNext ==
    /\ pending # <<>>
    /\ Head(pending).op \in {"open", "dump"}
    /\ directory' \in IF Head(pending).op = "open"
                      THEN {WriteFile(directory, Head(pending).path, Partial)}
                      ELSE WrittenThrough(directory, Head(pending).path,
                                          Head(pending).content)
    /\ pending' = Tail(pending)
    /\ UNCHANGED <<journal, runs>>
    /\ UNCHANGED parallelUnchanged

NextParallel ==
    \/ \E r \in Runners :
          \/ OpenInitial(r)
          \/ DumpInitial(r)
          \/ OpenRaw(r)
          \/ DumpRaw(r)
          \/ OpenAuto(r)
          \/ DumpAuto(r)
          \/ ExistsOriginal(r)
          \/ ExistsAuto(r)
          \/ LoadOriginal(r)
          \/ LoadAuto(r)
          \/ LoadRaw(r)
          \/ Align(r)
          \/ TruncateOutput(r)
          \/ WriteOutput(r)
          \/ OpenOriginal(r)
          \/ TruncateBackup(r)
          \/ BackUp(r)
          \/ CopyStatBackup(r)
          \/ OpenOutput(r)
          \/ TruncateOriginal(r)
          \/ Overwrite(r)
          \/ CopyStatOriginal(r)
    \/ CallNext
    \/ RemoveNext
    \/ WriteNext

SpecParallel == InitParallel /\ [][NextParallel]_vars

-----------------------------------------------------------------------------
(* Claims on alignment calls side by side *)

\* The files of a document after process_audio_file_complete has run alone
\* from entry e: the estimated document, then the recognised words and the
\* grouped phrases, then the alignment over them
PipelineCall(id, e, skip_steps) ==
    LET estimated == [e EXCEPT !.canonical = File(DocumentOf(id))]
        recognised == [estimated EXCEPT !.raw = File(StreamOf(id)),
                                        !.auto = File(AutoDocument)]
    IN  IF "auto" \in skip_steps THEN estimated
        ELSE IF "adjust" \in skip_steps THEN recognised
        ELSE AlignmentCall("simple_adjust_timestamps", recognised, TRUE).files

\* The directory after the call of runner r has run alone from `dir`
AfterCallOf(r, dir) ==
    [id \in DocIds |->
        IF id # r THEN dir[id]
        ELSE IF runs[r].pipeline
        THEN PipelineCall(r, dir[r], runs[r].skip_steps)
        ELSE AlignmentCall(runs[r].fn, dir[r], runs[r].replace).files]

AllEnded ==
    \A r \in Runners : runs[r].pc \in {"done", "failed", "raised", "missing"}

\* C22: alignment calls on two documents with distinct ids share no mutable
\* state: however the steps of the two calls interleave, every file of each
\* document ends with the content it has when the two calls run one after
\* the other, in either order.  This is so for every document whose files no
\* other process removes or writes meanwhile, also while the files of the
\* other document are being removed or written.
C22_InterleavingAsSequential ==
    (pc = "parallel" /\ AllEnded)
    => LET a_then_b == AfterCallOf(DocB, AfterCallOf(DocA, original))
           b_then_a == AfterCallOf(DocA, AfterCallOf(DocB, original))
       IN  \A id \in DocIds :
              ~Touched(id)
              => directory[id] = a_then_b[id] /\ directory[id] = b_then_a[id]

\* C22 witness: both calls wrote, backed up and overwrote, the call on b2
\* began after the call on a1 and ended before it, no file was removed or
\* written by another process meanwhile, and each document has its own
\* aligned phrases.
C22_Witness ==
    /\ pc = "parallel"
    /\ AllEnded
    /\ journal = << Event(DocA, "begin"), Event(DocB, "begin"),
                    Event(DocB, "end"), Event(DocA, "end") >>
    /\ \A r \in Runners : runs[r].pc = "done" /\ runs[r].replace
                          /\ ~runs[r].pipeline
    /\ runs[DocA].fn = "adjust_timestamps"
    /\ runs[DocB].fn = "simple_adjust_timestamps"
    /\ directory[DocA].canonical = File(AlignedDialogue("adjust_timestamps",
                                            DocumentOf(DocA), StreamOf(DocA)))
    /\ directory[DocB].canonical = File(AlignedDialogue("simple_adjust_timestamps",
                                            DocumentOf(DocB), StreamOf(DocB)))
    /\ directory[DocA].canonical # directory[DocB].canonical
    /\ directory[DocA].original = File(DocumentOf(DocA))
    /\ directory[DocB].original = File(DocumentOf(DocB))

\* The files of a1 were removed while its call was copying the _adjusted
\* file over the canonical one: the call raised, and the call on b2 left the
\* files it leaves when it runs alone
RaisedByCleanup ==
    /\ pc = "parallel"
    /\ AllEnded
    /\ Cleaned(DocA)
    /\ pending = <<>>
    /\ runs[DocA].pc = "raised"
    /\ runs[DocB].pc = "done"
    /\ runs[DocB].replace
    /\ directory[DocA].canonical = Absent
    /\ directory[DocA].original = File(DocumentOf(DocA))
    /\ directory[DocB] = AfterCallOf(DocB, original)[DocB]

\* The pipeline on b2 wrote its files anew and aligned them, while
\* generate_timestamp_json, in a process of its own, wrote the canonical
\* file of a1 over what the call on a1 had copied there
WrittenOverByEstimator ==
    /\ pc = "parallel"
    /\ AllEnded
    /\ pending = <<>>
    /\ runs[DocB].pipeline /\ runs[DocB].skip_steps = {} /\ runs[DocB].pc = "done"
    /\ directory[DocB] = AfterCallOf(DocB, original)[DocB]
    /\ directory[DocB].canonical = File(AlignedDialogue("simple_adjust_timestamps",
                                            DocumentOf(DocB), StreamOf(DocB)))
    /\ journal[1] = Event(DocA, "generate_timestamp_json")
    /\ ~runs[DocA].pipeline /\ runs[DocA].pc = "done" /\ runs[DocA].replace
    /\ directory[DocA].canonical = Invalid

\* The pipeline on a1 started from an _auto file that was not valid JSON,
\* wrote it anew and aligned the document
PipelineFromInvalid ==
    /\ pc = "parallel"
    /\ AllEnded
    /\ original[DocA].auto = Invalid
    /\ runs[DocA].pipeline /\ runs[DocA].skip_steps = {} /\ runs[DocA].pc = "done"
    /\ directory[DocA].auto = File(AutoDocument)
    /\ directory[DocA].canonical = File(AlignedDialogue("simple_adjust_timestamps",
                                            DocumentOf(DocA), StreamOf(DocA)))

-----------------------------------------------------------------------------
(* The normalizer on its own: re.sub(r'[^\w\s]', '', word.lower()) applied  *)
(* to a string, then to its own result.  `calls` counts the applications    *)
(* and `words` holds the string followed by each result.                    *)

MaxWordLen == 3

\* Letters in both cases, with and without a diacritic, the underscore, a
\* digit, punctuation and whitespace
NormalizerAlphabet == {"a", "A", "A_grave", "_", "1", ",", "'", " "}

InitNormalizer ==
    /\ pc = "normalize"
    /\ \E x \in SeqsUpTo(NormalizerAlphabet, MaxWordLen) : words = <<x>>
    /\ calls = 0
    /\ phrases = <<>> /\ prev = <<>>
    /\ auto_word_timestamps = <<>>
    /\ position = NoPosition
    /\ start_timestamp = NoToken
    /\ end_timestamp = NoToken
    /\ RunIdle
    /\ MainIdle
    /\ EstimatorIdle
    /\ AudioIdle

Normalize ==
    /\ pc = "normalize"
    /\ calls < MaxCalls
    /\ words' = Append(words, CleanWord(words[Len(words)]))
    /\ calls' = calls + 1
    /\ UNCHANGED <<pc, phrases, prev, auto_word_timestamps, position,
                   start_timestamp, end_timestamp, runVars>>
    /\ UNCHANGED <<mainVars, estimatorVars, audioVars>>

NextNormalizer == Normalize

SpecNormalizer == InitNormalizer /\ [][NextNormalizer]_vars

\* C23: word normalization (lower-case, then delete every character that is
\* neither a word character nor whitespace) is idempotent: normalizing a
\* normalized string leaves it as it is.
C23_NormalizeIdempotent ==
    (pc = "normalize" /\ Len(words) >= 3)
    => \A k \in 3..Len(words) : words[k] = words[2]

\* C23 witness: "À, " was normalized to "à ", which changed the case,
\* deleted the comma and kept the space, and was normalized again.
C23_Witness ==
    /\ pc = "normalize"
    /\ Len(words) >= 3
    /\ words[1] = <<"A_grave", ",", " ">>
    /\ words[2] = <<"a_grave", " ">>
    /\ words[3] = words[2]

\* A string with two punctuation marks, normalized twice
C23_TwoMarks ==
    /\ pc = "normalize"
    /\ Len(words) >= 3
    /\ words[1] = <<",", "A", "'">>
    /\ words[3] = <<"a">>

-----------------------------------------------------------------------------
(* Claims on the cross-phrase state *)

\* The cross-phrase state has just resolved the end of the phrase at `index`
CrossPhraseResolvedEnd ==
    /\ pc = "apply"
    /\ Len(trail) = 3
    /\ trail[3].state = "cross_phrase"
    /\ ~Found(trail[2].end)
    /\ Found(end_timestamp)

\* The position in the stream of the token the matcher returned as the end
\* of the transition sequence (the trailing words of the phrase followed by
\* the leading words of the next)
TransitionEndIndex ==
    FirstEqual(auto_word_timestamps,
        find_word_sequence_in_auto_timestamps(
            LastN(FindWords(phrases[index].text), 2)
                \o FirstN(FindWords(phrases[index + 1].text), 2),
            auto_word_timestamps, NoHint)[2])

\* The number of words of the next phrase in the transition sequence
NextWordsIncluded == Min(2, Len(FindWords(phrases[index + 1].text)))

\* The tokens aligned with the words of the next phrase
NextPhraseTokens ==
    {auto_word_timestamps[j] :
        j \in {k \in 1..Len(auto_word_timestamps) :
                  /\ k > TransitionEndIndex - NextWordsIncluded
                  /\ k <= TransitionEndIndex}}

\* C24: when the cross-phrase state resolves the end of a phrase, the token
\* selected is the one aligned with the phrase's own last word: the tokens
\* aligned with the leading words of the next phrase in the transition
\* sequence, min(2, number of next-phrase words) of them, are dropped by the
\* index offset, and the end never comes from a token of the next phrase.
C24_EndSkipsNextPhrase ==
    CrossPhraseResolvedEnd
    => /\ end_timestamp \notin NextPhraseTokens
       /\ TransitionEndIndex - NextWordsIncluded >= 1
             => end_timestamp =
                   auto_word_timestamps[TransitionEndIndex - NextWordsIncluded]

\* What the code does instead: it steps back over min(2, number of words of
\* the phrase itself), and keeps the end of the transition sequence when
\* that step leaves the stream.
C24_EndStepsBackOwnWords ==
    CrossPhraseResolvedEnd
    => LET offset == Min(2, Len(FindWords(phrases[index].text)))
       IN end_timestamp =
             IF TransitionEndIndex - offset >= 1
             THEN auto_word_timestamps[TransitionEndIndex - offset]
             ELSE auto_word_timestamps[TransitionEndIndex]

\* "Hi!" before "Go to go home." on hey, go, to, go, home: the end of "Hi!"
\* is the token "go", which is aligned with the first word of the next phrase
C24_OneWordBeforeFour ==
    /\ CrossPhraseResolvedEnd
    /\ phrases = GreetingDocument
    /\ auto_word_timestamps = GreetingStream
    /\ index = 1
    /\ TransitionEndIndex = 3
    /\ end_timestamp = GreetingStream[2]

\* The cross-phrase state has just resolved the start of the phrase at
\* `index`
CrossPhraseResolvedStart ==
    /\ pc = "apply"
    /\ Len(trail) = 3
    /\ trail[3].state = "cross_phrase"
    /\ ~Found(trail[2].start)
    /\ Found(start_timestamp)

\* The position in the stream of the token the matcher returned as the
\* start of the transition sequence (the trailing words of the previous
\* phrase followed by the leading words of the phrase)
TransitionStartIndex ==
    FirstEqual(auto_word_timestamps,
        find_word_sequence_in_auto_timestamps(
            LastN(FindWords(phrases[index - 1].text), 2)
                \o FirstN(FindWords(phrases[index].text), 2),
            auto_word_timestamps, NoHint)[1])

\* The number of words of the previous phrase in the transition sequence
PrevWordsIncluded == Min(2, Len(FindWords(phrases[index - 1].text)))

\* The tokens aligned with the words of the previous phrase
PrevPhraseTokens ==
    {auto_word_timestamps[j] :
        j \in {k \in 1..Len(auto_word_timestamps) :
                  /\ k >= TransitionStartIndex
                  /\ k < TransitionStartIndex + PrevWordsIncluded}}

\* C25: when the cross-phrase state resolves the start of a phrase, the
\* token selected is the one aligned with the phrase's own first word: the
\* tokens aligned with the trailing words of the previous phrase are skipped
\* by the index offset and the start never comes from a token of the
\* previous phrase, also when the matched token lies within the last two
\* tokens of the stream and when the transition sequence was located by the
\* boundary-word fallback.
C25_StartSkipsPreviousPhrase ==
    CrossPhraseResolvedStart
    => /\ start_timestamp \notin PrevPhraseTokens
       /\ TransitionStartIndex + PrevWordsIncluded <= Len(auto_word_timestamps)
       /\ start_timestamp =
             auto_word_timestamps[TransitionStartIndex + PrevWordsIncluded]

\* What the code does instead: the skip is made when the stream has a token
\* at that offset, and the start of the transition sequence, a token of the
\* previous phrase, is kept otherwise.
C25_StartSkipsWhenInStream ==
    CrossPhraseResolvedStart
    => start_timestamp =
          IF TransitionStartIndex + PrevWordsIncluded <= Len(auto_word_timestamps)
          THEN auto_word_timestamps[TransitionStartIndex + PrevWordsIncluded]
          ELSE auto_word_timestamps[TransitionStartIndex]

\* "Go to go home." before "I love cà phê" on go, to: the start of the
\* second phrase is the token "go", the first token of the stream
C25_MatchAtEndOfStream ==
    /\ CrossPhraseResolvedStart
    /\ index = 2
    /\ phrases[1].text = GoHomeText
    /\ phrases[2].text = CoffeeText
    /\ Len(auto_word_timestamps) = 2
    /\ TransitionStartIndex = 1
    /\ start_timestamp = auto_word_timestamps[1]

\* The skip made, with the transition sequence located by the boundary-word
\* fallback
C25_Skipped ==
    /\ CrossPhraseResolvedStart
    /\ TransitionStartIndex + PrevWordsIncluded <= Len(auto_word_timestamps)
    /\ start_timestamp =
          auto_word_timestamps[TransitionStartIndex + PrevWordsIncluded]

-----------------------------------------------------------------------------
(* generate_audio: calls of generate_elevenlabs_audio in one process. Each   *)
(* call is answered by the API in one of the ways below; the audio of a 200  *)
(* answer is then written to a file and, with pydub, decoded, which can      *)
(* raise; generate_gtts_audio asks the Google service and can raise too.     *)

MaxAudioCalls == 3

\* requests.post raised (no response)
ConnectionError == [status |-> 0, quota_text |-> FALSE]

\* No request was sent
NoResponse == [status |-> -1, quota_text |-> FALSE]

\* The answers of the API: the status code, and whether "quota_exceeded"
\* occurs in the body
ApiResponses ==
    { [status |-> 200, quota_text |-> FALSE],
      [status |-> 401, quota_text |-> TRUE],
      [status |-> 401, quota_text |-> FALSE],
      [status |-> 429, quota_text |-> TRUE],
      [status |-> 500, quota_text |-> FALSE],
      ConnectionError }

\* What the calls of generate_gtts_audio made by one call do, in order: TRUE
\* for one that returns the audio, FALSE for one that raises. The call makes
\* at most two.
GttsAnswers == [1..2 -> BOOLEAN]

\* Mutant of QuotaExceeded: the body alone decides
QuotaExceeded_ByText(response) == response.quota_text

\* response.status_code == 401 and "quota_exceeded" in response.text
QuotaExceeded(response) == response.status = 401 /\ response.quota_text

\* The calls of generate_gtts_audio made after a request: one inside the try
\* block on an answer other than 200, and one by the handler of line 251 when
\* the try block raised, be it in requests.post, in the saving of the audio or
\* in the fallback called inside it
Fallbacks(response, saved, gtts) ==
    IF response = ConnectionError THEN <<gtts[1]>>
    ELSE IF response.status = 200
    THEN IF saved THEN <<>> ELSE <<gtts[1]>>
    ELSE IF gtts[1] THEN <<TRUE>> ELSE <<FALSE, gtts[2]>>

\* How the call ends: with the audio of the API, with the audio of Google
\* TTS, or with the exception of the last fallback
EngineFor(response, saved, gtts) ==
    LET fallbacks == Fallbacks(response, saved, gtts)
    IN IF fallbacks = <<>> THEN "elevenlabs"
       ELSE IF fallbacks[Len(fallbacks)] THEN "gtts"
       ELSE "raised"

TtsCall(sent, response, fallbacks, engine) ==
    [sent |-> sent, response |-> response, fallbacks |-> fallbacks,
     engine |-> engine]

InitAudio ==
    /\ pc = "audio"
    /\ elevenlabs_quota_exceeded = FALSE
    /\ tts_calls = <<>>
    /\ phrases = <<>> /\ prev = <<>> /\ calls = 0
    /\ MatcherIdle
    /\ RunIdle
    /\ MainIdle
    /\ EstimatorIdle

\* Lines 184-186: with the flag set the call goes to Google TTS at once,
\* outside the try block: an exception of the fallback leaves the call
FallBackAtOnce ==
    /\ pc = "audio"
    /\ Len(tts_calls) < MaxAudioCalls
    /\ elevenlabs_quota_exceeded
    /\ \E returned \in BOOLEAN :
          tts_calls' = Append(tts_calls,
                              TtsCall(FALSE, NoResponse, <<returned>>,
                                      IF returned THEN "gtts" ELSE "raised"))
    /\ UNCHANGED elevenlabs_quota_exceeded
    /\ UNCHANGED <<pc, phrases, prev, calls, matcherVars, runVars, mainVars,
                   estimatorVars>>

\* Lines 188-253: the request is sent; the quota answer sets the flag before
\* the fallback is called; every answer but 200, an exception of
\* requests.post and an exception while the audio of a 200 answer is saved
\* fall back to Google TTS
SendRequest ==
    /\ pc = "audio"
    /\ Len(tts_calls) < MaxAudioCalls
    /\ ~elevenlabs_quota_exceeded
    /\ \E response \in ApiResponses, saved \in BOOLEAN, gtts \in GttsAnswers :
          /\ elevenlabs_quota_exceeded' = QuotaExceeded(response)
          /\ tts_calls' = Append(tts_calls,
                                 TtsCall(TRUE, response,
                                         Fallbacks(response, saved, gtts),
                                         EngineFor(response, saved, gtts)))
    /\ UNCHANGED <<pc, phrases, prev, calls, matcherVars, runVars, mainVars,
                   estimatorVars>>

NextAudio == FallBackAtOnce \/ SendRequest

SpecAudio == InitAudio /\ [][NextAudio]_vars

-----------------------------------------------------------------------------
(* Claims on generate_audio *)

\* The call that a step has added to the history
LastCall == tts_calls'[Len(tts_calls')]

\* C30: the quota flag is a latch.  Once a request has been answered with
\* the quota-exceeded response (401 with "quota_exceeded" in the body) the
\* flag stays set, and every later call goes to the fallback TTS without a
\* request to the API, returning the fallback's audio when the fallback
\* returns; any other error, an exception after a 200 answer among them,
\* goes to the fallback for that call only and leaves the flag unset.
C30_QuotaFlagLatches ==
    [][ /\ elevenlabs_quota_exceeded => elevenlabs_quota_exceeded'
        /\ (tts_calls' # tts_calls)
              => /\ LastCall.engine = "elevenlabs" <=> LastCall.fallbacks = <<>>
                 /\ LastCall.engine = "gtts"
                       <=> /\ LastCall.fallbacks # <<>>
                           /\ LastCall.fallbacks[Len(LastCall.fallbacks)]
        /\ (elevenlabs_quota_exceeded /\ tts_calls' # tts_calls)
              => /\ ~LastCall.sent
                 /\ Len(LastCall.fallbacks) = 1
        /\ (~elevenlabs_quota_exceeded /\ tts_calls' # tts_calls)
              => /\ LastCall.sent
                 /\ elevenlabs_quota_exceeded'
                       <=> /\ LastCall.response.status = 401
                           /\ LastCall.response.quota_text
                 /\ LastCall.response.status # 200 => LastCall.fallbacks # <<>>
      ]_vars

\* C30 witness: a server error fell back without setting the flag (the next
\* request was sent), the quota answer set it, and the third call went to
\* the fallback without a request.
C30_Witness ==
    /\ pc = "audio"
    /\ Len(tts_calls) = 3
    /\ tts_calls[1].sent /\ tts_calls[1].response.status = 500
    /\ tts_calls[1].engine = "gtts"
    /\ tts_calls[2].sent /\ tts_calls[2].response.status = 401
    /\ tts_calls[2].response.quota_text
    /\ ~tts_calls[3].sent /\ tts_calls[3].engine = "gtts"
    /\ elevenlabs_quota_exceeded

\* A 200 answer whose audio could not be saved: the call returned the audio
\* of Google TTS and the flag stayed unset
C30_SaveFailed ==
    /\ pc = "audio"
    /\ Len(tts_calls) = 2
    /\ tts_calls[1].sent /\ tts_calls[1].response.status = 200
    /\ tts_calls[1].engine = "gtts"
    /\ tts_calls[2].sent
    /\ ~elevenlabs_quota_exceeded

-----------------------------------------------------------------------------
(* Claims on the order of the tokens the sequence matcher returns *)

BothFound ==
    /\ pc = "matched"
    /\ Found(start_timestamp)
    /\ Found(end_timestamp)

StartIndex == FirstEqual(auto_word_timestamps, start_timestamp)

EndIndex == FirstEqual(auto_word_timestamps, end_timestamp)

\* C28: whenever the call returns both a start token and an end token, the
\* start token does not occur later in the stream than the end token, for
\* whole-window matches and for the boundary-word fallback alike.
C28_StartNotAfterEnd == BothFound => StartIndex <= EndIndex

\* C28 as amended: with a whole-window match the end token lies
\* len(words) - 1 tokens after the start token; a start token later in the
\* stream than the end token comes from the boundary-word fallback, where
\* the start is the first token matching the first word and the end the last
\* token matching the last word.
C28_OrderedForWholeWindows ==
    BothFound
    => /\ WholeWindows # {} => EndIndex = StartIndex + Len(words) - 1
       /\ StartIndex > EndIndex
             => /\ WholeWindows = {}
                /\ StartIndex = MinOf(FirstTargetMatches)
                /\ EndIndex = MaxOf(LastTargetMatches)

\* C28 witness: a window of two words matched at a place other than the
\* last occurrence of its last word, and its two tokens were returned.
C28_Witness ==
    /\ BothFound
    /\ Len(words) = 2
    /\ WholeWindows # {}
    /\ EndIndex = StartIndex + 1
    /\ EndIndex < MaxOf(LastTargetMatches)

\* The fallback returning the tokens in inverted order: "to go" on go, to
C28_Inverted ==
    /\ BothFound
    /\ words = << <<"t", "o">>, <<"G", "o">> >>
    /\ Len(auto_word_timestamps) = 2
    /\ StartIndex = 2
    /\ EndIndex = 1

-----------------------------------------------------------------------------
(* Claims on the order of the phrases of the aligned document *)

\* The run has written the aligned document
AlignedWritten == pc = "done" /\ files.adjusted.state = "complete"

\* C29: the aligned document lists the phrases in the order of the input
\* document: the number of phrases is unchanged and the i-th phrase of the
\* output is the i-th phrase of the input, with its text, whatever tokens
\* the matcher selected.
C29_InputOrderKept ==
    AlignedWritten
    => /\ Len(files.adjusted.doc) = Len(original)
       /\ \A i \in 1..Len(files.adjusted.doc) :
             /\ files.adjusted.doc[i].src = i
             /\ files.adjusted.doc[i].text = original[i].text

\* C29 as amended: the number of phrases is unchanged and every phrase of
\* the input occurs once in the output with its text; the output lists them
\* in ascending order of the start_time they had after alignment, phrases
\* with equal start_time in input order, so the input order is kept exactly
\* when the aligned start times do not decrease along the input.
C29_OrderedByAlignedStart ==
    AlignedWritten
    => LET order == StableOrder([k \in 1..Len(prev) |-> prev[k].start_time])
       IN /\ Len(files.adjusted.doc) = Len(original)
          /\ Len(prev) = Len(original)
          /\ \A k \in 1..Len(prev) : prev[k].src = k
          /\ \A i \in 1..Len(files.adjusted.doc) :
                /\ files.adjusted.doc[i].src = order[i]
                /\ files.adjusted.doc[i].text = original[order[i]].text
          /\ (\A i \in 1..Len(files.adjusted.doc) : files.adjusted.doc[i].src = i)
                <=> \A k \in 1..(Len(prev) - 1) :
                       prev[k].start_time <= prev[k + 1].start_time

\* C29 witness: "I love cà phê" then "Go to go home." on go, to, go, home,
\* a stream that holds the second phrase only: the first phrase keeps its
\* estimated start, the second is aligned before it, and the aligned
\* document lists the second phrase first.
C29_Witness ==
    /\ AlignedWritten
    /\ Len(original) = 2
    /\ original[1].text = CoffeeText
    /\ original[2].text = GoHomeText
    /\ auto_word_timestamps = GoHomeStream
    /\ prev[2].start_time < prev[1].start_time
    /\ files.adjusted.doc[1].src = 2
    /\ files.adjusted.doc[1].text = GoHomeText
    /\ files.adjusted.doc[2].src = 1

\* Two phrases aligned to the same start and listed in input order
C29_TieKeepsInputOrder ==
    /\ AlignedWritten
    /\ Len(original) = 2
    /\ prev[1].start_time = prev[2].start_time
    /\ FindWords(original[1].text) # <<>>
    /\ files.adjusted.doc[1].src = 1

-----------------------------------------------------------------------------
(* Natural numbers of any size, for the arithmetic of floats: a natural is  *)
(* the tuple of its limbs in base 2^14, the least significant first,        *)
(* without leading limbs that are 0 (0 is the empty tuple).                 *)

LimbBase == 2 ^ 14

\* The element of a set of one element. An operation takes its operands as
\* The({... : x \in {operand}}), which works each operand out once.
The(S) == CHOOSE v \in S : TRUE

\* The i-th limb of the natural a, 0 beyond its length
LimbAt(a, i) == IF i >= 1 /\ i <= Len(a) THEN a[i] ELSE 0

\* a without its leading limbs that are 0
RECURSIVE BigTrim(_)
BigTrim(a) ==
    IF a = <<>> THEN a
    ELSE IF a[Len(a)] = 0 THEN BigTrim(SubSeq(a, 1, Len(a) - 1))
    ELSE a

\* The natural number n < 2^28 as limbs
BigOf(n) == BigTrim(<<n % LimbBase, n \div LimbBase>>)

\* The column sums `cols` brought to limbs: each keeps its remainder and
\* passes the quotient on
RECURSIVE BigCarry(_, _, _)
BigCarry(cols, k, carry) ==
    IF k > Len(cols)
    THEN IF carry = 0 THEN <<>> ELSE <<carry>>
    ELSE <<(cols[k] + carry) % LimbBase>>
            \o BigCarry(cols, k + 1, (cols[k] + carry) \div LimbBase)

\* a + b
BigAdd(a, b) ==
    LET n == IF Len(a) > Len(b) THEN Len(a) ELSE Len(b)
    IN BigCarry([k \in 1..n |-> LimbAt(a, k) + LimbAt(b, k)], 1, 0)

\* The sum of the products of the limbs of a and b of weight LimbBase^(k - 1)
RECURSIVE BigColumn(_, _, _, _)
BigColumn(a, b, k, i) ==
    IF i > Len(a) THEN 0
    ELSE a[i] * LimbAt(b, k + 1 - i) + BigColumn(a, b, k, i + 1)

\* a * b, one of them of at most four limbs
BigMul(a, b) ==
    IF a = <<>> \/ b = <<>> THEN <<>>
    ELSE BigTrim(BigCarry([k \in 1..(Len(a) + Len(b) - 1) |-> BigColumn(a, b, k, 1)],
                          1, 0))

RECURSIVE BigLessFrom(_, _, _)
BigLessFrom(a, b, k) ==
    IF k = 0 THEN FALSE
    ELSE IF a[k] # b[k] THEN a[k] < b[k]
    ELSE BigLessFrom(a, b, k - 1)

\* a < b
BigLess(a, b) ==
    IF Len(a) # Len(b) THEN Len(a) < Len(b) ELSE BigLessFrom(a, b, Len(a))

\* a - b for a >= b: a limb that is short borrows from the next
RECURSIVE BigBorrow(_, _, _, _)
BigBorrow(a, b, k, borrow) ==
    IF k > Len(a) THEN <<>>
    ELSE LET d == a[k] - LimbAt(b, k) - borrow
         IN IF d < 0 THEN <<d + LimbBase>> \o BigBorrow(a, b, k + 1, 1)
            ELSE <<d>> \o BigBorrow(a, b, k + 1, 0)

BigSub(a, b) == BigTrim(BigBorrow(a, b, 1, 0))

\* The number of binary digits of the limb v
RECURSIVE LimbLength(_)
LimbLength(v) == IF v = 0 THEN 0 ELSE 1 + LimbLength(v \div 2)

\* The number of binary digits of a
BitLength(a) == IF a = <<>> THEN 0 ELSE 14 * (Len(a) - 1) + LimbLength(a[Len(a)])

\* The binary digit of weight 2^i of a
BitAt(a, i) == (LimbAt(a, i \div 14 + 1) \div 2 ^ (i % 14)) % 2

\* a * 2^s
BigShiftLeft(a, s) ==
    BigMul(a, [k \in 1..(s \div 14 + 1) |-> IF k = s \div 14 + 1 THEN 2 ^ (s % 14) ELSE 0])

\* a \div 2^s
BigShiftRight(a, s) ==
    LET skip == s \div 14
        r == s % 14
    IN BigTrim([k \in 1..(Len(a) - skip) |->
                   LimbAt(a, k + skip) \div 2 ^ r
                      + (LimbAt(a, k + skip + 1) % 2 ^ r) * 2 ^ (14 - r)])

\* Some binary digit of a of weight below 2^s is 1
BigLowBits(a, s) ==
    \/ \E k \in 1..(s \div 14) : LimbAt(a, k) # 0
    \/ LimbAt(a, s \div 14 + 1) % 2 ^ (s % 14) # 0

\* The value of a natural below 2^31
BigValue(a) == LimbAt(a, 1) + LimbBase * LimbAt(a, 2) + LimbBase * LimbBase * LimbAt(a, 3)

\* The next n binary digits q of r / d (r < d), the most significant first,
\* and the remainder r they leave: one digit by doubling the remainder and
\* taking d off when it fits, n digits as the first half and the rest
RECURSIVE LongDivision(_, _, _)
LongDivision(r, d, n) ==
    IF n = 1
    THEN The({IF BigLess(r2, d) THEN [q |-> <<0>>, r |-> r2]
              ELSE [q |-> <<1>>, r |-> BigSub(r2, d)] :
                 r2 \in {BigAdd(r, r)}})
    ELSE The({The({[q |-> first.q \o rest.q, r |-> rest.r] :
                      rest \in {LongDivision(first.r, d, n - n \div 2)}}) :
                 first \in {LongDivision(r, d, n \div 2)}})

\* The digits of weight 2^(w + j) to 2^(w + 13) of the natural whose binary
\* digits are bits[1..n], the most significant first, as a limb
RECURSIVE LimbOfBits(_, _, _, _)
LimbOfBits(bits, n, w, j) ==
    IF j > 13 \/ w + j >= n THEN 0
    ELSE bits[n - (w + j)] * 2 ^ j + LimbOfBits(bits, n, w, j + 1)

\* The natural whose binary digits are bits[1..n], the most significant first
BigOfBits(bits, n) ==
    BigTrim([k \in 1..((n + 13) \div 14) |-> LimbOfBits(bits, n, 14 * (k - 1), 0)])

-----------------------------------------------------------------------------
(* The floats of the estimator (IEEE 754 binary64, none of them negative):   *)
(* a float x is the record of its 53 significant digits m, a natural with    *)
(* 2^52 <= m < 2^53, and of the exponent e of its last digit, x = m * 2^e;   *)
(* 0.0 has no digits. An operation gives the exact result rounded to 53      *)
(* significant digits, a tie to the even neighbour.                          *)

\* The float of the 54 digits or fewer q * 2^e, the last of them cut off and
\* the rest rounded up when `up`
F64Rounded(q, e, up) ==
    The({IF BitLength(m) > 53 THEN [m |-> BigShiftRight(m, 1), e |-> e + 1]
         ELSE [m |-> m, e |-> e] :
            m \in {IF up THEN BigAdd(q, <<1>>) ELSE q}})

\* The float nearest to n * 2^e, or to a value just above it when `sticky`
\* (the exact value has digits after those of n)
F64Round(n, e, sticky) ==
    The({LET s == BitLength(v) - 53
         IN IF v = <<>> THEN F64Zero
            ELSE IF s <= 0 THEN [m |-> BigShiftLeft(v, -s), e |-> e + s]
            ELSE The({F64Rounded(q, e + s,
                                 /\ BitAt(v, s - 1) = 1
                                 /\ \/ sticky
                                    \/ BigLowBits(v, s - 1)
                                    \/ BitAt(q, 0) = 1) :
                         q \in {BigShiftRight(v, s)}}) :
            v \in {n}})

\* float(n) of an int 0 <= n < 2^28
F64OfInt(n) == F64Round(BigOf(n), 0, FALSE)

\* x < y
F64Less(x, y) ==
    The({IF b.m = <<>> THEN FALSE
         ELSE IF a.m = <<>> THEN TRUE
         ELSE IF a.e # b.e THEN a.e < b.e
         ELSE BigLess(a.m, b.m) :
            a \in {x}, b \in {y}})

\* max(x, y)
F64Max(x, y) == The({IF F64Less(a, b) THEN b ELSE a : a \in {x}, b \in {y}})

\* hi + lo for hi.e >= lo.e, neither of them 0: a summand more than 55 digits
\* below the other one does not change it
F64AddAligned(hi, lo) ==
    IF hi.e - lo.e > 55 THEN hi
    ELSE F64Round(BigAdd(BigShiftLeft(hi.m, hi.e - lo.e), lo.m), lo.e, FALSE)

\* x + y
F64Add(x, y) ==
    The({IF a.m = <<>> THEN b
         ELSE IF b.m = <<>> THEN a
         ELSE IF a.e >= b.e THEN F64AddAligned(a, b)
         ELSE F64AddAligned(b, a) :
            a \in {x}, b \in {y}})

\* x * y
F64Mul(x, y) ==
    The({F64Round(BigMul(a.m, b.m), a.e + b.e, FALSE) : a \in {x}, b \in {y}})

\* x / y for x > 0 and y > 0: the whole part of the quotient of the
\* significant digits, 0 or 1, and 55 digits after it, then rounded; a
\* remainder makes the exact quotient lie above those digits
F64Quotient(x, y, whole) ==
    The({F64Round(BigOfBits(<<whole>> \o division.q, 56), x.e - y.e - 55,
                  division.r # <<>>) :
            division \in {LongDivision(IF whole = 1 THEN BigSub(x.m, y.m) ELSE x.m,
                                       y.m, 55)}})

\* x / y, y > 0
F64Div(x, y) ==
    The({IF a.m = <<>> THEN F64Zero
         ELSE F64Quotient(a, b, IF BigLess(a.m, b.m) THEN 0 ELSE 1) :
            a \in {x}, b \in {y}})

\* The float of the decimal of t thousandths: the float a literal such as 0.05
\* stands for, and float("3.400000")
F64OfMillis(t) == F64Div(F64OfInt(t), F64OfInt(1000))

\* sum(xs): the floats added to 0 from left to right
RECURSIVE F64Sum(_)
F64Sum(xs) ==
    IF xs = <<>> THEN F64Zero
    ELSE F64Add(F64Sum(SubSeq(xs, 1, Len(xs) - 1)), xs[Len(xs)])

\* The whole number nearest to x * scale for an int scale, a tie to the even
\* neighbour, on the exact value of x: round(x, 2), the correctly rounded
\* decimal of x, is this number of hundredths for scale = 100
F64Scaled(x, scale) ==
    The({LET s == -a.e
         IN IF a.m = <<>> THEN 0
            ELSE IF s <= 0 THEN BigValue(BigShiftLeft(n, -s))
            ELSE The({IF BitAt(n, s - 1) = 1 /\ (BigLowBits(n, s - 1) \/ q % 2 = 1)
                      THEN q + 1
                      ELSE q :
                         q \in {BigValue(BigShiftRight(n, s))}}) :
            a \in {x}, n \in {BigMul(x.m, BigOf(scale))}})

\* round(x, 2), in milliseconds
F64Round2(x) == 10 * F64Scaled(x, 100)

-----------------------------------------------------------------------------
(* split_text_into_words                                                    *)

AsciiLetters ==
    {"a", "b", "c", "d", "e", "f", "g", "h", "i", "j", "k", "l", "m", "n", "o",
     "p", "q", "r", "s", "t", "u", "v", "w", "x", "y", "z",
     "A", "B", "C", "D", "E", "F", "G", "H", "I", "J", "K", "L", "M", "N", "O",
     "P", "Q", "R", "S", "T", "U", "V", "W", "X", "Y", "Z"}

DigitChars == <<"0", "1", "2", "3", "4", "5", "6", "7", "8", "9">>

AsciiDigits == {DigitChars[k] : k \in 1..10}

\* [a-zA-Z0-9'-]
TokenChars == AsciiLetters \cup AsciiDigits \cup {"'", "-"}

\* [.,!?;:]
TokenPunctuation == {".", ",", "!", "?", ";", ":"}

\* The punctuation that ends a display phrase
SentenceEnd == {".", "!", "?", ";"}

\* The letters of vietnamese_pattern that the alphabet of the model holds
VietnameseLetters ==
    {"a_acute", "a_circ_acute", "a_grave", "a_hook", "d_stroke", "e_circ",
     "e_circ_acute", "e_circ_dot", "e_grave", "i_grave", "o_acute",
     "o_circ_acute", "o_circ_hook", "o_grave", "o_hook", "o_horn", "o_horn_dot",
     "o_horn_grave", "o_horn_hook", "u_acute", "u_grave", "u_hook", "u_horn",
     "u_tilde", "A_grave", "E_circ"}

\* Lines 123-127 of extract_vietnamese_phrases
common_phrases ==
    << <<"b", "o_acute", "n", "g", " ", "d_stroke", "a_acute">>,
       <<"g", "i", "a_circ_acute", "c", " ", "m", "o_horn">>,
       <<"S", "a_grave", "i", " ", "G", "o_grave", "n">>,
       <<"t", "r", "u_grave", "n", "g", " ", "h", "o_horn_dot", "p">>,
       <<"c", "o_circ_hook", " ", "v", "u_tilde">>,
       <<"d_stroke", "a_acute", "n", "h", " ", "g", "i", "a_acute">>,
       <<"t", "i", "e_circ_acute", "n", "g", " ", "V", "i", "e_circ_dot", "t">>,
       <<"n", "g", "u_horn", "o_horn_grave", "i", " ", "V", "i", "e_circ_dot", "t">>,
       <<"V", "i", "e_circ_dot", "t", " ", "N", "a", "m">>,
       <<"p", "h", "o_horn_hook", " ", "b", "o_grave">>,
       <<"b", "a_acute", "n", "h", " ", "m", "i_grave">>,
       <<"c", "a_grave", " ", "p", "h", "e_circ">>,
       <<"c", "o_horn", "m", " ", "t", "a_circ_acute", "m">>,
       <<"b", "u_acute", "n", " ", "c", "h", "a_hook">>,
       <<"h", "u_hook", " ", "t", "i", "e_circ_acute", "u">>,
       <<"b", "a_acute", "n", "h", " ", "x", "e_grave", "o">>,
       <<"c", "h", "a_hook", " ", "g", "i", "o_grave">>,
       <<"g", "o_hook", "i", " ", "c", "u", "o_circ_acute", "n">> >>

\* "<vietnamese>"
OpenTag == <<"<", "v", "i", "e", "t", "n", "a", "m", "e", "s", "e", ">">>

\* "</vietnamese>"
CloseTag == <<"<", "/", "v", "i", "e", "t", "n", "a", "m", "e", "s", "e", ">">>

\* str(n)
RECURSIVE Decimal(_)
Decimal(n) ==
    IF n < 10 THEN <<DigitChars[n + 1]>>
    ELSE Decimal(n \div 10) \o <<DigitChars[(n % 10) + 1]>>

\* f"__VIET_TAG_{i}__"
TagPlaceholder(i) ==
    <<"_", "_", "V", "I", "E", "T", "_", "T", "A", "G", "_">> \o Decimal(i) \o <<"_", "_">>

\* f"__VIET_{i}__"
PhraseToken(i) == <<"_", "_", "V", "I", "E", "T", "_">> \o Decimal(i) \o <<"_", "_">>

\* `piece` occurs in text at position k
StartsAt(text, k, piece) ==
    /\ k + Len(piece) - 1 <= Len(text)
    /\ SubSeq(text, k, k + Len(piece) - 1) = piece

\* text.endswith(piece)
EndsWith(text, piece) ==
    /\ Len(piece) <= Len(text)
    /\ SubSeq(text, Len(text) - Len(piece) + 1, Len(text)) = piece

\* text.replace(old, new), from position k on: the occurrences of `old` that
\* do not overlap, from left to right
RECURSIVE ReplaceFrom(_, _, _, _)
ReplaceFrom(text, old, new, k) ==
    IF k > Len(text) THEN <<>>
    ELSE IF StartsAt(text, k, old)
         THEN new \o ReplaceFrom(text, old, new, k + Len(old))
         ELSE <<text[k]>> \o ReplaceFrom(text, old, new, k + 1)

\* text.strip()
RECURSIVE Strip(_)
Strip(text) ==
    IF text = <<>> THEN text
    ELSE IF text[1] \in Whitespace THEN Strip(Tail(text))
    ELSE IF text[Len(text)] \in Whitespace THEN Strip(SubSeq(text, 1, Len(text) - 1))
    ELSE text

\* re.findall(r'\S+|\s+', text), the parts that are not whitespace; this is
\* text.split() too
RECURSIVE ScanParts(_, _, _, _)
ScanParts(text, k, cur, acc) ==
    IF k > Len(text)
    THEN IF cur = <<>> THEN acc ELSE Append(acc, cur)
    ELSE IF text[k] \notin Whitespace
         THEN ScanParts(text, k + 1, Append(cur, text[k]), acc)
         ELSE ScanParts(text, k + 1, <<>>,
                        IF cur = <<>> THEN acc ELSE Append(acc, cur))

\* Line 174, re.findall(r'<vietnamese>([^<]+)</vietnamese>', text) from
\* position k on: the contents of the tag pairs. [^<]+ runs up to the next
\* "<", which has to open the closing tag.
RECURSIVE vietnamese_tags(_, _)
vietnamese_tags(text, k) ==
    IF k > Len(text) THEN <<>>
    ELSE LET from == k + Len(OpenTag)
             opens == {i \in from..Len(text) : text[i] = "<"}
             stop == IF opens = {} THEN Len(text) + 1 ELSE MinOf(opens)
         IN IF StartsAt(text, k, OpenTag) /\ stop > from /\ StartsAt(text, stop, CloseTag)
            THEN <<SubSeq(text, from, stop - 1)>>
                    \o vietnamese_tags(text, stop + Len(CloseTag))
            ELSE vietnamese_tags(text, k + 1)

\* Lines 179-188: every tag pair replaced by its placeholder between spaces
RECURSIVE text_with_placeholders(_, _, _)
text_with_placeholders(text, tags, i) ==
    IF i > Len(tags) THEN text
    ELSE text_with_placeholders(
             ReplaceFrom(text, OpenTag \o tags[i] \o CloseTag,
                         <<" ">> \o TagPlaceholder(i - 1) \o <<" ">>, 1),
             tags, i + 1)

\* Lines 86-109
is_vietnamese_word(word, vietnamese_vocab) ==
    \/ CleanWord(word) \in vietnamese_vocab
    \/ \E k \in 1..Len(word) : word[k] \in VietnameseLetters

\* Lines 145-156 of extract_vietnamese_phrases: the words of the text that are
\* Vietnamese and belong to no phrase found so far are added, from word k on
RECURSIVE AddVietnameseWords(_, _, _, _)
AddVietnameseWords(found, k, viet_phrases, vietnamese_vocab) ==
    IF k > Len(found) THEN viet_phrases
    ELSE LET is_in_phrase ==
                 \E i \in 1..Len(viet_phrases) :
                    LET parts == ScanParts(viet_phrases[i], 1, <<>>, <<>>)
                    IN \E j \in 1..Len(parts) : parts[j] = found[k]
         IN AddVietnameseWords(found, k + 1,
                IF is_vietnamese_word(found[k], vietnamese_vocab) /\ ~is_in_phrase
                THEN Append(viet_phrases, found[k])
                ELSE viet_phrases,
                vietnamese_vocab)

\* Lines 111-158. vocab_phrases are the entries of the vocabulary that hold a
\* space and are no common phrase, in the order in which the set gives them.
extract_vietnamese_phrases(text, vietnamese_vocab, vocab_phrases) ==
    LET listed == common_phrases \o vocab_phrases
        InText(phrase) == Contains(text, phrase)
    IN AddVietnameseWords(FindWords(text), 1, SelectSeq(listed, InText),
                          vietnamese_vocab)

\* Line 197: sorted(viet_phrases, key=len, reverse=True), which keeps the
\* order of phrases of equal length
sorted_phrases(viet_phrases) ==
    LET order == StableOrder([k \in 1..Len(viet_phrases) |-> -Len(viet_phrases[k])])
    IN [i \in 1..Len(viet_phrases) |-> viet_phrases[order[i]]]

\* Lines 201-204: every phrase replaced by its token between spaces
RECURSIVE clean_text(_, _, _)
clean_text(text, phrases_sorted, i) ==
    IF i > Len(phrases_sorted) THEN text
    ELSE clean_text(
             ReplaceFrom(text, phrases_sorted[i],
                         <<" ">> \o PhraseToken(i - 1) \o <<" ">>, 1),
             phrases_sorted, i + 1)

\* re.findall(r'[a-zA-Z0-9\'-]+|[.,!?;:]', part)
RECURSIVE PunctuationSplit(_, _, _, _)
PunctuationSplit(part, k, cur, acc) ==
    IF k > Len(part)
    THEN IF cur = <<>> THEN acc ELSE Append(acc, cur)
    ELSE IF part[k] \in TokenChars
         THEN PunctuationSplit(part, k + 1, Append(cur, part[k]), acc)
         ELSE IF part[k] \in TokenPunctuation
         THEN PunctuationSplit(part, k + 1, <<>>,
                  Append(IF cur = <<>> THEN acc ELSE Append(acc, cur), <<part[k]>>))
         ELSE PunctuationSplit(part, k + 1, <<>>,
                  IF cur = <<>> THEN acc ELSE Append(acc, cur))

\* token in viet_tag_map
IsTagPlaceholder(token, tags) == \E i \in 1..Len(tags) : token = TagPlaceholder(i - 1)

\* token.startswith("__VIET_") and token.endswith("__")
IsPhraseToken(token) ==
    /\ StartsAt(token, 1, <<"_", "_", "V", "I", "E", "T", "_">>)
    /\ EndsWith(token, <<"_", "_">>)

\* Lines 209-223: a placeholder stays whole; any other part is replaced by
\* its pieces when there are several
TokensOfPart(part, tags) ==
    LET punctuation_split == PunctuationSplit(part, 1, <<>>, <<>>)
    IN IF IsTagPlaceholder(part, tags) \/ IsPhraseToken(part) THEN <<part>>
       ELSE IF Len(punctuation_split) > 1 THEN punctuation_split
       ELSE <<part>>

RECURSIVE Flatten(_)
Flatten(seqs) == IF seqs = <<>> THEN <<>> ELSE seqs[1] \o Flatten(Tail(seqs))

\* Lines 227-258: the word record of a token. The token of a phrase that
\* token_map does not hold has no record: the lookup raises KeyError.
Word(token, tags, phrases_sorted) ==
    IF IsTagPlaceholder(token, tags)
    THEN LET i == CHOOSE i \in 1..Len(tags) : token = TagPlaceholder(i - 1)
         IN [text |-> OpenTag \o tags[i] \o CloseTag,
             viet_words |-> <<tags[i]>>,
             is_punctuation |-> FALSE]
    ELSE IF IsPhraseToken(token)
    THEN LET i == CHOOSE i \in 1..Len(phrases_sorted) : token = PhraseToken(i - 1)
         IN [text |-> phrases_sorted[i],
             viet_words |-> <<phrases_sorted[i]>>,
             is_punctuation |-> FALSE]
    ELSE [text |-> token,
          viet_words |-> <<>>,
          is_punctuation |-> token[1] \in TokenPunctuation]

\* Lines 174-223: the tags, the phrases and the tokens of a text
Tokenized(text, vietnamese_vocab, vocab_phrases) ==
    LET tags == vietnamese_tags(text, 1)
        with_placeholders == text_with_placeholders(text, tags, 1)
        phrases_sorted ==
            sorted_phrases(extract_vietnamese_phrases(with_placeholders,
                                                      vietnamese_vocab, vocab_phrases))
        parts == ScanParts(clean_text(with_placeholders, phrases_sorted, 1),
                           1, <<>>, <<>>)
    IN [tags |-> tags,
        phrases_sorted |-> phrases_sorted,
        word_tokens |-> Flatten([k \in 1..Len(parts) |-> TokensOfPart(parts[k], tags)])]

\* Line 239: token_map[token] raises KeyError for a token in the form of a
\* phrase token that stands for no phrase of the text
RaisesKeyError(text, vietnamese_vocab, vocab_phrases) ==
    LET t == Tokenized(text, vietnamese_vocab, vocab_phrases)
    IN \E k \in 1..Len(t.word_tokens) :
          /\ ~IsTagPlaceholder(t.word_tokens[k], t.tags)
          /\ IsPhraseToken(t.word_tokens[k])
          /\ \A i \in 1..Len(t.phrases_sorted) : t.word_tokens[k] # PhraseToken(i - 1)

\* The words the call returns when it does not raise
split_text_into_words(text, vietnamese_vocab, vocab_phrases) ==
    LET t == Tokenized(text, vietnamese_vocab, vocab_phrases)
    IN [k \in 1..Len(t.word_tokens) |-> Word(t.word_tokens[k], t.tags, t.phrases_sorted)]

-----------------------------------------------------------------------------
(* estimate_timestamps: the audio duration shared out over the lines by     *)
(* their character counts, and over the words of a line by their lengths    *)

\* Line 301: the pause between speakers, in milliseconds
SpeakerPause == 50

\* Line 314: the duration given to a punctuation mark
PunctuationDuration == 100

\* Line 320: the least duration given to a word
MinWordDuration == 200

\* Line 309: the length a punctuation mark counts for
PunctuationWeight == 3

\* The floats of the literals 0.05, 0.1 and 0.2
PauseSeconds == F64OfMillis(SpeakerPause)

PunctuationSeconds == F64OfMillis(PunctuationDuration)

MinWordSeconds == F64OfMillis(MinWordDuration)

\* Line 356: the most words of a display phrase
MaxPhraseWords == 3

RECURSIVE SumOf(_)
SumOf(ns) == IF ns = <<>> THEN 0 ELSE ns[1] + SumOf(Tail(ns))

\* Lines 273-279: the lowercased topic word and common words that are not
\* empty
vietnamese_vocab(data) ==
    {Lower(word) :
        word \in ({data.topic_word} \cup {data.common_words[k] : k \in 1..Len(data.common_words)})
                    \ {<<>>}}

\* The entries of the vocabulary that extract_vietnamese_phrases adds to its
\* list of phrases (lines 130-133)
VocabPhrases(vocab) ==
    {word \in vocab :
        /\ \E k \in 1..Len(word) : word[k] = " "
        /\ \A i \in 1..Len(common_phrases) : common_phrases[i] # word}

\* Line 285
total_text_length(lines) == SumOf([k \in 1..Len(lines) |-> Len(lines[k].text)])

\* Line 288
duration_per_char(lines, duration) ==
    IF total_text_length(lines) > 0
    THEN F64Div(duration, F64OfInt(total_text_length(lines)))
    ELSE F64Zero

\* Line 297
line_duration(line, dpc) == F64Mul(F64OfInt(Len(line.text)), dpc)

\* Line 309
total_word_length(ws) ==
    SumOf([k \in 1..Len(ws) |->
              IF ws[k].is_punctuation THEN PunctuationWeight ELSE Len(ws[k].text)])

\* Lines 311-322
word_duration(word, ws, duration) ==
    IF word.is_punctuation
    THEN PunctuationSeconds
    ELSE F64Max(F64Mul(F64Div(F64OfInt(Len(word.text)),
                              F64OfInt(total_word_length(ws))),
                       duration),
                MinWordSeconds)

\* Line 328: every duration multiplied by the factor, from the first to
\* the k-th
RECURSIVE Adjusted(_, _, _)
Adjusted(durations, adjustment_factor, k) ==
    IF k = 0 THEN <<>>
    ELSE Append(Adjusted(durations, adjustment_factor, k - 1),
                F64Mul(durations[k], adjustment_factor))

\* Mutant of Rescaled: the durations are left as first computed
Rescaled_Unadjusted(durations, duration) == durations

\* Lines 325-328: the durations multiplied by the factor that would make them
\* add up to the line's duration
Rescaled(durations, duration) ==
    The({IF F64Less(F64Zero, total_word_duration)
         THEN The({Adjusted(durations, adjustment_factor, Len(durations)) :
                      adjustment_factor \in {F64Div(duration, total_word_duration)}})
         ELSE durations :
            total_word_duration \in {F64Sum(durations)}})

\* Lines 311-322: the durations of the words, from the first to the k-th
RECURSIVE WordDurations(_, _, _)
WordDurations(ws, duration, k) ==
    IF k = 0 THEN <<>>
    ELSE Append(WordDurations(ws, duration, k - 1),
                word_duration(ws[k], ws, duration))

word_durations(ws, duration) ==
    The({Rescaled(durations, duration) :
            durations \in {WordDurations(ws, duration, Len(ws))}})

\* ' '.join(phrase_words)
RECURSIVE JoinBySpace(_)
JoinBySpace(texts) ==
    IF texts = <<>> THEN <<>>
    ELSE IF Len(texts) = 1 THEN texts[1]
    ELSE texts[1] \o <<" ">> \o JoinBySpace(Tail(texts))

\* Lines 339-380: the words grouped into display phrases, with their times
\* before rounding. j is the word looked at, word_start_time where it starts,
\* phrase_words, phrase_viet_words and phrase_start_time the phrase being
\* gathered, acc the phrases made so far. A phrase whose text is empty is
\* left out.
RECURSIVE GroupWords(_, _, _, _, _, _, _, _, _)
GroupWords(speaker, ws, durations, j, word_start_time, phrase_words, phrase_viet_words, phrase_start_time, acc) ==
    IF j > Len(ws) THEN acc
    ELSE The({
        LET gathered == Append(phrase_words, ws[j].text)
            viet_words == phrase_viet_words \o ws[j].viet_words
            end_phrase ==
                \/ ws[j].is_punctuation /\ ws[j].text \in {<<c>> : c \in SentenceEnd}
                \/ Len(gathered) >= MaxPhraseWords
                \/ j = Len(ws)
            phrase_text == Strip(JoinBySpace(gathered))
            timestamp == [speaker |-> speaker,
                          text |-> phrase_text,
                          viet_words |-> {viet_words[k] : k \in 1..Len(viet_words)},
                          start_time |-> phrase_start_time,
                          end_time |-> word_end_time]
        IN IF end_phrase
           THEN GroupWords(speaker, ws, durations, j + 1, word_end_time, <<>>, <<>>,
                           word_end_time,
                           IF phrase_text # <<>> THEN Append(acc, timestamp) ELSE acc)
           ELSE GroupWords(speaker, ws, durations, j + 1, word_end_time, gathered,
                           viet_words, phrase_start_time, acc) :
        word_end_time \in {F64Add(word_start_time, durations[j])}})

\* Lines 300-301: the clock when line i (counted from 1) begins
LineStart(i, clock) == IF i > 1 THEN F64Add(clock, PauseSeconds) ELSE clock

\* Lines 294-380 for one line: its display phrases with their times before
\* rounding
LinePhrases(line, ws, i, dpc, clock) ==
    The({GroupWords(line.speaker, ws, durations, 1, start, <<>>, <<>>, start, <<>>) :
            durations \in {word_durations(ws, line_duration(line, dpc))},
            start \in {LineStart(i, clock)}})

\* Lines 365-371: the entries that can be made of a display phrase: the times
\* rounded to 2 decimals, list(set(phrase_viet_words)) in any order
Rounded(timestamp) ==
    {[timestamp EXCEPT !.viet_words = order,
                       !.start_time = F64Round2(timestamp.start_time),
                       !.end_time = F64Round2(timestamp.end_time)] :
        order \in Orderings(timestamp.viet_words)}

-----------------------------------------------------------------------------
(* generate_timestamp_json on an audio file whose name gives a dialogue id  *)

MaxLines == 3

\* "ok then"
OkThenText == <<"o", "k", " ", "t", "h", "e", "n">>

\* "phê!"
PheText == <<"p", "h", "e_circ", "!">>

\* "<vietnamese>cà</vietnamese> ok"
TaggedText == OpenTag \o <<"c", "a_grave">> \o CloseTag \o <<" ", "o", "k">>

\* "__VIET_0__": the form of a phrase token, in the text itself
TokenText == PhraseToken(0)

\* The line texts tried, the empty text among them
LineTexts == {<<>>, HiText, OkThenText, GoHomeText}

\* Line texts with words of the target language, marked up or not
VietnameseTexts == {CoffeeText, PheText, TaggedText, TokenText}

\* "home", a topic word that occurs in a line
HomeWord == <<"h", "o", "m", "e">>

\* "go home", a topic phrase
GoHomePhrase == <<"g", "o", " ", "h", "o", "m", "e">>

\* "to go", a common word of the dialogue
ToGoPhrase == <<"t", "o", " ", "g", "o">>

\* The speakers take turns
SpeakerOf(k) == IF k % 2 = 1 THEN "Mira" ELSE "Michael"

LinesOf(texts) == [k \in 1..Len(texts) |-> [speaker |-> SpeakerOf(k), text |-> texts[k]]]

\* The dialogues tried: up to MaxLines lines without vocabulary; up to two
\* lines, target-language words among them, with and without a topic word;
\* up to two lines with a topic phrase and a common word
Dialogues ==
    {Dialogue(LinesOf(texts), <<>>, <<>>) : texts \in SeqsUpTo(LineTexts, MaxLines)}
    \cup {Dialogue(LinesOf(texts), topic_word, <<>>) :
             texts \in SeqsUpTo(LineTexts \cup VietnameseTexts, 2) \ {<<>>},
             topic_word \in {<<>>, HomeWord, GoHomePhrase}}
    \cup {Dialogue(LinesOf(texts), GoHomePhrase, <<ToGoPhrase>>) :
             texts \in SeqsUpTo({HiText, GoHomeText}, 2) \ {<<>>}}

\* What ffprobe reports for the audio file, in milliseconds
AudioDurations == {2000, 3400}

InitEstimator ==
    /\ pc = "generate"
    /\ dialogue_data \in Dialogues \cup {NoDialogue}
    /\ total_duration \in AudioDurations
    /\ current_time = F64Zero
    /\ phrases = <<>> /\ prev = <<>> /\ calls = 0
    /\ MatcherIdle
    /\ files = NoFiles
    /\ original = <<>>
    /\ index = 0
    /\ simple = FALSE
    /\ replace_original = FALSE
    /\ trail = <<>>
    /\ MainIdle
    /\ AudioIdle

estimatorUnchanged ==
    <<prev, calls, matcherVars, original, simple, replace_original, mainVars,
      audioVars, dialogue_data, total_duration>>

\* Lines 414-418: the dialogue of that id is looked up; without one the call
\* returns None
FindDialogueFile ==
    /\ pc = "generate"
    /\ pc' = IF ~dialogue_data.found THEN "failed"
             ELSE IF dialogue_data.english_dialogue = <<>> THEN "estimated"
             ELSE "estimate"
    /\ index' = 1
    /\ current_time' = F64Zero
    /\ UNCHANGED <<phrases, trail, files, estimatorUnchanged>>

\* Lines 294-383: one round of the loop over the lines. `trail` keeps the
\* display phrases with their times before rounding. A KeyError of
\* split_text_into_words leaves estimate_timestamps and
\* generate_timestamp_json.
EstimateLine ==
    /\ pc = "estimate"
    /\ index <= Len(dialogue_data.english_dialogue)
    /\ LET lines == dialogue_data.english_dialogue
           line == lines[index]
           vocab == vietnamese_vocab(dialogue_data)
       IN \E vocab_phrases \in Orderings(VocabPhrases(vocab)) :
             IF RaisesKeyError(line.text, vocab, vocab_phrases)
             THEN /\ pc' = "raised"
                  /\ UNCHANGED <<phrases, trail, index, current_time>>
             ELSE \E dpc \in {duration_per_char(lines, F64OfMillis(total_duration))},
                     ws \in {split_text_into_words(line.text, vocab, vocab_phrases)} :
                  \E made \in {LinePhrases(line, ws, index, dpc, current_time)} :
                     /\ trail' = trail \o made
                     /\ \E entries \in [1..Len(made) ->
                                          UNION {Rounded(made[k]) : k \in 1..Len(made)}] :
                           /\ \A k \in 1..Len(made) : entries[k] \in Rounded(made[k])
                           /\ phrases' = phrases \o entries
                     /\ current_time' = F64Add(LineStart(index, current_time),
                                               line_duration(line, dpc))
                     /\ index' = index + 1
                     /\ pc' = IF index = Len(lines) THEN "estimated" ELSE "estimate"
    /\ UNCHANGED <<files, estimatorUnchanged>>

\* Lines 423-425: an empty result is reported and the call returns None
ReportNoTimestamps ==
    /\ pc = "estimated"
    /\ phrases = <<>>
    /\ pc' = "failed"
    /\ UNCHANGED <<phrases, trail, files, index, current_time, estimatorUnchanged>>

\* Lines 427-445: the document is written
WriteTimestampJson ==
    /\ pc = "estimated"
    /\ phrases # <<>>
    /\ files' = [files EXCEPT !.canonical = File(phrases)]
    /\ pc' = "written"
    /\ UNCHANGED <<phrases, trail, index, current_time, estimatorUnchanged>>

NextEstimator ==
    \/ FindDialogueFile
    \/ EstimateLine
    \/ ReportNoTimestamps
    \/ WriteTimestampJson

SpecEstimator == InitEstimator /\ [][NextEstimator]_vars

-----------------------------------------------------------------------------
(* Claims about the proportional estimator *)

\* The words of a line of the dialogue
WordsOfLine(line) ==
    split_text_into_words(line.text, vietnamese_vocab(dialogue_data),
        CHOOSE order \in Orderings(VocabPhrases(vietnamese_vocab(dialogue_data))) : TRUE)

\* estimate_timestamps has returned for a dialogue of at least one line whose
\* lines all hold a word
EstimatedWithWords ==
    /\ pc \in {"estimated", "written", "failed"}
    /\ dialogue_data.found
    /\ dialogue_data.english_dialogue # <<>>
    /\ \A k \in 1..Len(dialogue_data.english_dialogue) :
          WordsOfLine(dialogue_data.english_dialogue[k]) # <<>>

\* The pauses the loop has put between the lines
PausesInserted == SpeakerPause * (Len(dialogue_data.english_dialogue) - 1)

\* The time in whole microseconds nearest to the float
Microseconds(x) == F64Scaled(x, 1000000)

\* C26 as stated: for any number of lines, each with at least one word, the
\* first display phrase starts at 0 and the last one ends at the audio
\* duration D, so that none ends after the audio (times before rounding).
C26_TimelineEndsAtDuration ==
    EstimatedWithWords =>
        /\ trail # <<>>
        /\ trail[1].start_time = F64Zero
        /\ trail[Len(trail)].end_time = F64OfMillis(total_duration)
        /\ \A k \in 1..Len(trail) :
              ~F64Less(F64OfMillis(total_duration), trail[k].end_time)

\* C26: for n lines, each with at least one word, the first display phrase
\* starts at 0 and the last one ends at D plus the 50 ms pauses put between the
\* lines, D + 50 ms * (n - 1), up to the rounding of the float arithmetic: the
\* end before rounding is that time to the microsecond, the end written
\* (rounded to 2 decimals) is that time when D is a whole number of
\* hundredths, and with two lines or more the last display phrase ends after
\* the audio.
C26_TimelineEndsAfterPauses ==
    EstimatedWithWords =>
        /\ trail # <<>>
        /\ trail[1].start_time = F64Zero
        /\ Microseconds(trail[Len(trail)].end_time)
              = 1000 * (total_duration + PausesInserted)
        /\ total_duration % 10 = 0
              => phrases[Len(phrases)].end_time = total_duration + PausesInserted
        /\ Len(dialogue_data.english_dialogue) >= 2
              => F64Less(F64OfMillis(total_duration), trail[Len(trail)].end_time)

\* Three lines that were shared out with the floor for short words in force
\* ("Hi" is given 0.2 s before the rescaling), ending 100 ms after the audio,
\* at a float that is not the one of 2.1
C26_Witness ==
    /\ pc = "written"
    /\ EstimatedWithWords
    /\ Len(dialogue_data.english_dialogue) = 3
    /\ dialogue_data.english_dialogue[1].text = HiText
    /\ total_duration = 2000
    /\ Microseconds(trail[Len(trail)].end_time) = 2100000
    /\ trail[Len(trail)].end_time # F64OfMillis(2100)
    /\ phrases[Len(phrases)].end_time = 2100
    /\ Len(trail) > 3

\* A single line ends at the audio duration, to the microsecond
C26_OneLine ==
    /\ pc = "written"
    /\ EstimatedWithWords
    /\ Len(dialogue_data.english_dialogue) = 1
    /\ Microseconds(trail[Len(trail)].end_time) = 1000 * total_duration

\* A line whose text holds the form of a phrase token: the call has raised
\* KeyError
EstimateRaised ==
    /\ pc = "raised"
    /\ dialogue_data.english_dialogue[index].text = TokenText

\* C27 as stated: with a total character count of zero the call does not fail;
\* the degenerate result is passed through and generate_timestamp_json
\* produces the reference document.
C27_ZeroLengthPassedThrough ==
    /\ pc \in {"written", "failed"}
    /\ dialogue_data.found
    /\ total_text_length(dialogue_data.english_dialogue) = 0
    => /\ pc = "written"
       /\ Loaded(files.canonical)

\* What the code does with a total character count of zero: no phrase is made,
\* the call reports that it could not estimate and writes nothing
C27_ZeroLengthReported ==
    /\ pc \in {"written", "failed"}
    /\ dialogue_data.found
    /\ total_text_length(dialogue_data.english_dialogue) = 0
    => /\ pc = "failed"
       /\ phrases = <<>>
       /\ files.canonical = Absent

\* The call has ended on a dialogue of two empty lines
C27_ZeroLengthEnded ==
    /\ pc = "failed"
    /\ dialogue_data.found
    /\ Len(dialogue_data.english_dialogue) = 2
    /\ total_text_length(dialogue_data.english_dialogue) = 0

=============================================================================
